---- MODULE Spec2Model ----
(***************************************************************************)
(* A model of the TOML library midbel/toml: the document tree and its      *)
(* insertion rules, the recursive-descent parser that builds the tree from *)
(* the token stream, the formatter that writes a tree back as text, and   *)
(* the scanners that turn text into tokens.                                *)
(***************************************************************************)
EXTENDS Integers, Sequences, FiniteSets, TLC

VARIABLES
    heap,       \* the nodes allocated by the parser; a pointer is an index
    curr,       \* the table the key/value lines currently go to (Parser: t)
    status,     \* "running", "ok" (Parse returned a tree), "error"
    result,     \* the Node Parse returned: a pointer, 0 for nil
    doc,        \* the lines the parser has consumed so far
    input,      \* the characters given to NewScanner
    scn,        \* the Scanner
    scan,       \* the function the loop of Scanner.scan calls next
    pending,    \* the tokens of the running round still to be sent
    ppc,        \* where the goroutine of Scanner.scan is
    cpc,        \* where the caller of Scan is
    received,   \* the tokens Scan has returned, in order
    scans,      \* the number of calls of Scan
    buffer,     \* the characters given to the scanner with modes
    s18,        \* that scanner
    pc18,       \* where its caller is: "idle", in Scan, in scanComment
    comm,       \* scanComment's locals pos and offset
    tokens18,   \* the tokens its Scan has returned
    keep,       \* its fields KeepComment and KeepMultiline
    source,     \* the characters of the document given to the formatter
    rules,      \* the formatter's rules withEmpty and withInline
    fpc,        \* where the formatter's caller is
    docs,       \* the trees NewFormatter has parsed, in order
    outs,       \* what each Format has written, in order
    rets,       \* what each Format has returned: TRUE for an error
    held,       \* the tree of the formatter, its field doc
    again,      \* what a second Format of the same formatter has written
    number,     \* the number given to a converter of the formatter
    numrule,    \* the converter's base, prefix and underscore
    shown,      \* what the converter returned, once it has
    escape,     \* the characters of a basic string given to the scanner
    escaped,    \* what scanEscape made of the escape sequence, once it has
    calls       \* the number of calls of Scan the parser makes before Parse returns

\* The parser's run.
pvars == <<heap, curr, status, result, doc>>

\* The scanner's goroutine, its queue and the caller of Scan.
cvars == <<input, scn, scan, pending, ppc, cpc, received, scans>>

\* The scanner with modes and the caller of its Scan.
mvars == <<buffer, s18, pc18, comm, tokens18, keep>>

\* The formatter and its caller.
fvars == <<source, rules, fpc, docs, outs, rets, held, again>>

\* A number converter of the formatter and its caller.
nvars == <<number, numrule, shown>>

\* The scanner on one escape sequence of a basic string.
evars == <<escape, escaped>>

\* The parser as the caller of Scan.
avars == <<calls>>

vars == <<pvars, cvars, mvars, fvars, nvars, evars, avars>>

\* What the steps of one part of the program leave alone.
notParser == <<cvars, mvars, fvars, nvars, evars, avars>>

notChannel == <<pvars, mvars, fvars, nvars, evars, avars>>

notModes == <<pvars, cvars, fvars, nvars, evars, avars>>

notFormat == <<pvars, cvars, mvars, nvars, evars, avars>>

notNumber == <<pvars, cvars, mvars, fvars, evars, avars>>

notEscape == <<pvars, cvars, mvars, fvars, nvars, avars>>

----------------------------------------------------------------------------
(* Bounds of the model.                                                    *)

MaxLines == 3

----------------------------------------------------------------------------
(* Tokens (token.go of the parser's revision).                             *)

TokEOF == "EOF"
TokIdent == "Ident"
TokString == "String"
TokInteger == "Integer"
TokFloat == "Float"
TokBool == "Bool"
TokDate == "Date"
TokDatetime == "Datetime"
TokTime == "Time"
TokComment == "Comment"
TokIllegal == "Illegal"
TokBegArray == "BegArray"
TokEndArray == "EndArray"
TokBegInline == "BegInline"
TokEndInline == "EndInline"
TokBegRegularTable == "BegRegularTable"
TokEndRegularTable == "EndRegularTable"
TokBegArrayTable == "BegArrayTable"
TokEndArrayTable == "EndArrayTable"
TokEqual == "Equal"
TokDot == "Dot"
TokComma == "Comma"
TokNL == "NL"

NoPos == <<0, 0>>

Token(type, lit) == [Type |-> type, Literal |-> lit, Pos |-> NoPos]

EOFToken == Token(TokEOF, "")

\* The zero value of Token: TokIdent is the constant of value 0.
ZeroToken == Token(TokIdent, "")

isZero(t) == t.Literal = "" /\ t.Type = TokIdent

isComment(t) == t.Type = TokComment

isTable(t) == t.Type \in {TokBegRegularTable, TokBegArrayTable}

IsIdent(t) == t.Type \in {TokIdent, TokString, TokInteger}

isValue(t) ==
    t.Type \in {TokString, TokInteger, TokFloat, TokBool, TokDate, TokTime, TokDatetime}

isNL(t) == t.Type = TokNL

\* Position.Less: line first, column second.
PosLess(p, q) == p[1] < q[1] \/ (p[1] = q[1] /\ p[2] < q[2])

----------------------------------------------------------------------------
(* The document tree (Node, Option, Literal, Array, Table).                *)

tableImplicit == "implicit"
tableRegular == "regular"
tableArray == "array"
tableItem == "item"
tableInline == "inline"

\* Every node is one record shape: key is the key token's literal (the
\* literal itself for a Literal), pos its position, nodes the children of a
\* Table or the elements of an Array, value the value of an Option.
Node(type, key, pos, kind, nodes, value, tokType) ==
    [type |-> type, key |-> key, pos |-> pos, kind |-> kind, nodes |-> nodes,
     value |-> value, tokType |-> tokType, pre |-> <<>>, post |-> ""]

NewTable(tok, kind) == Node("table", tok.Literal, tok.Pos, kind, <<>>, 0, tok.Type)

NewOption(tok) == Node("option", tok.Literal, tok.Pos, "", <<>>, 0, tok.Type)

NewLiteral(tok) == Node("literal", tok.Literal, tok.Pos, "", <<>>, 0, tok.Type)

NewArray(pos) == Node("array", "array", pos, "", <<>>, 0, "")

\* The strings the model compares, in Go's string order.
KeyOrder == <<"", "a", "array", "b", "c", "t", "x">>

Rank(str) == CHOOSE i \in 1..Len(KeyOrder) : KeyOrder[i] = str

StrLeq(s, t) == Rank(s) <= Rank(t)

isArray(t) == t.kind = tableArray

isInline(t) == t.key = "" /\ t.kind = tableInline

isImplicit(t) == t.kind = tableImplicit

isRoot(t) == t.key = "" /\ t.tokType = TokIdent

isContainer(kind) == kind \in {tableImplicit, tableRegular, tableArray}

canNest(kind) == kind \in {tableImplicit, tableRegular, tableItem}

\* sort.Search: the smallest index in [i, j) (counted from 0) at which the
\* predicate str <= nodes[i].String() holds, by bisection.
RECURSIVE bisect(_, _, _, _, _)
bisect(h, str, nodes, i, j) ==
    IF i < j
    THEN LET m == (i + j) \div 2
         IN  IF ~StrLeq(str, h[nodes[m + 1]].key)
             THEN bisect(h, str, nodes, m + 1, j)
             ELSE bisect(h, str, nodes, i, m)
    ELSE i

searchNodes(h, str, nodes) == bisect(h, str, nodes, 0, Len(nodes))

\* appendNode that adds the node at the end, whatever the place found.
appendNodeLast(nodes, n, at) == Append(nodes, n)

appendNode(nodes, n, at) ==
    IF at >= Len(nodes)
    THEN Append(nodes, n)
    ELSE SubSeq(nodes, 1, at) \o <<n>> \o SubSeq(nodes, at + 1, Len(nodes))

\* sort.Slice by String(): insertion of each node before the first node
\* that is not smaller.
RECURSIVE sortNodes(_, _)
sortNodes(h, nodes) ==
    IF nodes = <<>>
    THEN <<>>
    ELSE LET rest == sortNodes(h, Tail(nodes))
             n == Head(nodes)
             at == CHOOSE k \in 0..Len(rest) :
                     /\ \A j \in 1..k : ~StrLeq(h[n].key, h[rest[j]].key)
                     /\ (k < Len(rest) => StrLeq(h[n].key, h[rest[k + 1]].key))
         IN  SubSeq(rest, 1, at) \o <<n>> \o SubSeq(rest, at + 1, Len(rest))

\* mergeTables that forgets the children of the table it merges in.
mergeTablesDropsChildren(h, t, n) ==
    [h EXCEPT ![t].kind = tableRegular]

\* mergeTables(t, n): t takes over the children of n and becomes regular.
mergeTables(h, t, n) ==
    [h EXCEPT ![t].nodes = sortNodes(h, h[t].nodes \o h[n].nodes),
              ![t].kind = tableRegular]

\* Table.registerTable: t and n are pointers, n already allocated.
registerTable(h, t, n) ==
    IF isInline(h[t])
    THEN [h |-> h, err |-> TRUE]
    ELSE LET at == searchNodes(h, h[n].key, h[t].nodes)
             found == at < Len(h[t].nodes)
             x == IF found THEN h[t].nodes[at + 1] ELSE 0
             same == found /\ h[x].key = h[n].key
         IN  IF same /\ h[x].type = "option"
             THEN [h |-> h, err |-> TRUE]
             ELSE IF same /\ h[x].type = "table"
             THEN IF isImplicit(h[x])
                  THEN [h |-> [mergeTables(h, n, x) EXCEPT
                                  ![t].nodes = [h[t].nodes EXCEPT ![at + 1] = n]],
                        err |-> FALSE]
                  ELSE IF isArray(h[x])
                  THEN IF h[n].kind # tableItem
                       THEN [h |-> h, err |-> TRUE]
                       ELSE [h |-> [h EXCEPT ![x].nodes = Append(h[x].nodes, n)],
                             err |-> FALSE]
                  ELSE [h |-> h, err |-> TRUE]
             ELSE IF h[n].kind = tableItem
             THEN LET a == [h[n] EXCEPT !.kind = tableArray, !.nodes = <<n>>,
                                        !.pre = <<>>, !.post = ""]
                      p == Len(h) + 1
                  IN  [h |-> [Append(h, a) EXCEPT
                                 ![t].nodes = appendNode(h[t].nodes, p, at)],
                       err |-> FALSE]
             ELSE [h |-> [h EXCEPT ![t].nodes = appendNode(h[t].nodes, n, at)],
                   err |-> FALSE]

\* retrieveTable that walks into the inline table an option holds.
retrieveTableIntoInline(h, t, tok) ==
    LET at == searchNodes(h, tok.Literal, h[t].nodes)
        found == at < Len(h[t].nodes)
        x == IF found THEN h[t].nodes[at + 1] ELSE 0
        same == found /\ h[x].key = tok.Literal
    IN  IF same /\ h[x].type = "option"
        THEN IF h[x].value # 0 /\ h[h[x].value].type = "table"
             THEN [h |-> h, x |-> h[x].value, err |-> FALSE]
             ELSE [h |-> h, x |-> 0, err |-> TRUE]
        ELSE IF same /\ h[x].type = "table"
        THEN IF isArray(h[x]) /\ Len(h[x].nodes) > 0
             THEN [h |-> h, x |-> h[x].nodes[Len(h[x].nodes)], err |-> FALSE]
             ELSE [h |-> h, x |-> x, err |-> FALSE]
        ELSE LET n == Len(h) + 1
                 r == registerTable(Append(h, NewTable(tok, tableImplicit)), t, n)
             IN  [h |-> r.h, x |-> n, err |-> r.err]

\* retrieveTable that walks into the first Item of an array of tables.
retrieveTableFirstItem(h, t, tok) ==
    LET at == searchNodes(h, tok.Literal, h[t].nodes)
        found == at < Len(h[t].nodes)
        x == IF found THEN h[t].nodes[at + 1] ELSE 0
        same == found /\ h[x].key = tok.Literal
    IN  IF same /\ h[x].type = "option"
        THEN [h |-> h, x |-> 0, err |-> TRUE]
        ELSE IF same /\ h[x].type = "table"
        THEN IF isArray(h[x]) /\ Len(h[x].nodes) > 0
             THEN [h |-> h, x |-> h[x].nodes[1], err |-> FALSE]
             ELSE [h |-> h, x |-> x, err |-> FALSE]
        ELSE LET n == Len(h) + 1
                 r == registerTable(Append(h, NewTable(tok, tableImplicit)), t, n)
             IN  [h |-> r.h, x |-> n, err |-> r.err]

\* Table.retrieveTable: the table bound to the key tok in t, created as an
\* implicit table when the key is not bound yet.
retrieveTable(h, t, tok) ==
    LET at == searchNodes(h, tok.Literal, h[t].nodes)
        found == at < Len(h[t].nodes)
        x == IF found THEN h[t].nodes[at + 1] ELSE 0
        same == found /\ h[x].key = tok.Literal
    IN  IF same /\ h[x].type = "option"
        THEN [h |-> h, x |-> 0, err |-> TRUE]
        ELSE IF same /\ h[x].type = "table"
        THEN IF isArray(h[x]) /\ Len(h[x].nodes) > 0
             THEN [h |-> h, x |-> h[x].nodes[Len(h[x].nodes)], err |-> FALSE]
             ELSE [h |-> h, x |-> x, err |-> FALSE]
        ELSE LET n == Len(h) + 1
                 r == registerTable(Append(h, NewTable(tok, tableImplicit)), t, n)
             IN  [h |-> r.h, x |-> n, err |-> r.err]

\* registerOption without the check of the key found at the insertion point.
registerOptionUnchecked(h, t, o) ==
    LET at == searchNodes(h, h[o].key, h[t].nodes)
    IN  [h |-> [h EXCEPT ![t].nodes = appendNode(h[t].nodes, o, at),
                         ![t].kind = IF isImplicit(h[t]) THEN tableRegular
                                     ELSE h[t].kind],
         err |-> FALSE]

\* Table.registerOption: o is a pointer to the allocated Option.
registerOption(h, t, o) ==
    LET at == searchNodes(h, h[o].key, h[t].nodes)
        found == at < Len(h[t].nodes)
        x == IF found THEN h[t].nodes[at + 1] ELSE 0
        same == found /\ h[x].key = h[o].key
    IN  IF same /\ h[x].type \in {"option", "table"}
        THEN [h |-> h, err |-> TRUE]
        ELSE [h |-> [h EXCEPT ![t].nodes = appendNode(h[t].nodes, o, at),
                              ![t].kind = IF isImplicit(h[t]) THEN tableRegular
                                          ELSE h[t].kind],
              err |-> FALSE]

----------------------------------------------------------------------------
(* The parser (Parser, two tokens of lookahead).  L is the token sequence  *)
(* being read, P the parser's state while it reads: the heap h, the index  *)
(* i of Parser.curr in L (Parser.peek is the token after it), the comment  *)
(* buffer com, the error flag err and the node v a parse function returns. *)

Tok(L, i) == IF i <= Len(L) THEN L[i] ELSE EOFToken

\* Parser.next
next(L, i) == IF Tok(L, i).Type = TokEOF THEN i ELSE i + 1

PState(h, i, com) == [h |-> h, i |-> i, com |-> com, err |-> FALSE, v |-> 0]

Failed(P) == [P EXCEPT !.err = TRUE, !.v = 0]

\* Parser.parseComment: the buffer is reset, then every comment token (and
\* the newline after it) is consumed into it.
RECURSIVE commentLoop(_, _, _)
commentLoop(L, i, com) ==
    IF isComment(Tok(L, i))
    THEN LET j == next(L, i)
             k == IF Tok(L, j).Type = TokNL THEN next(L, j) ELSE j
         IN  commentLoop(L, k, Append(com, Tok(L, i).Literal))
    ELSE [i |-> i, com |-> com]

parseComment(L, P) ==
    LET c == commentLoop(L, P.i, <<>>) IN [P EXCEPT !.i = c.i, !.com = c.com]

\* Parser.parseLiteral
parseLiteral(L, P) ==
    IF ~isValue(Tok(L, P.i))
    THEN Failed(P)
    ELSE [P EXCEPT !.h = Append(P.h, NewLiteral(Tok(L, P.i))), !.v = Len(P.h) + 1]

RECURSIVE parseOption(_, _, _, _)
RECURSIVE parseArray(_, _)
RECURSIVE parseInline(_, _)
RECURSIVE arrayLoop(_, _, _)
RECURSIVE inlineLoop(_, _, _)
RECURSIVE appendElement(_, _, _, _)
RECURSIVE nextOption(_, _, _)

\* The value switch of parseOption and parseArray.
parseValue(L, P) ==
    CASE Tok(L, P.i).Type = TokBegArray -> parseArray(L, P)
      [] Tok(L, P.i).Type = TokBegInline -> parseInline(L, P)
      [] OTHER -> LET r == parseLiteral(L, P) IN [r EXCEPT !.i = next(L, r.i)]

\* The end of parseOption: r is the parser after the value of the key c, which
\* is registered in the table t with its comments.
registerValue(L, r, t, c) ==
    LET hasC == isComment(Tok(L, r.i))
        post == IF hasC THEN Tok(L, r.i).Literal ELSE ""
        i3 == IF hasC THEN next(L, r.i) ELSE r.i
        o == Len(r.h) + 1
        opt == [NewOption(c) EXCEPT !.value = r.v, !.pre = r.com, !.post = post]
    IN  IF r.err
        THEN Failed([r EXCEPT !.i = i3])
        ELSE LET g == registerOption(Append(r.h, opt), t, o)
             IN  [h |-> g.h, i |-> i3, com |-> r.com, err |-> g.err,
                  v |-> IF g.err THEN 0 ELSE o]

\* Parser.parseOption
parseOption(L, P, t, dotted) ==
    LET c == Tok(L, P.i) IN
    IF ~IsIdent(c)
    THEN Failed(P)
    ELSE IF Tok(L, P.i + 1).Type = TokDot /\ dotted
    THEN LET r == retrieveTable(P.h, t, c)
         IN  IF r.err
             THEN Failed(P)
             ELSE parseOption(L, [P EXCEPT !.h = r.h, !.i = next(L, next(L, P.i))],
                              r.x, dotted)
    ELSE LET i1 == next(L, P.i) IN
         IF Tok(L, i1).Type # TokEqual
         THEN Failed([P EXCEPT !.i = i1])
         ELSE registerValue(L, parseValue(L, [P EXCEPT !.i = next(L, i1)]), t, c)

\* One round of the loop of parseArray after its element is parsed: c is the
\* parser after the comments before the element, r after the element.
appendElement(L, c, r, a) ==
    IF r.err
    THEN Failed(r)
    ELSE LET t == Tok(L, r.i).Type
             i1 == IF t = TokComma THEN next(L, r.i) ELSE r.i
             hasC == isComment(Tok(L, i1))
             post == IF hasC THEN Tok(L, i1).Literal ELSE ""
             i2 == IF hasC THEN next(L, i1) ELSE i1
             i3 == IF isNL(Tok(L, i2)) THEN next(L, i2) ELSE i2
             h1 == [r.h EXCEPT ![a].nodes = Append(r.h[a].nodes, r.v)]
             h2 == [h1 EXCEPT ![r.v].pre = c.com, ![r.v].post = post]
         IN  IF t \notin {TokEndArray, TokComma, TokComment}
             THEN Failed([r EXCEPT !.h = h1])
             ELSE arrayLoop(L, [r EXCEPT !.h = h2, !.i = i3, !.v = 0], a)

\* The loop of parseArray; a is the Array being filled.
arrayLoop(L, P, a) ==
    IF Tok(L, P.i).Type \in {TokEOF, TokEndArray}
    THEN P
    ELSE appendElement(L, parseComment(L, P), parseValue(L, parseComment(L, P)), a)

\* The end of parseArray and of parseInline: r is the parser after the loop,
\* closing the bracket that ends the value v.
closeValue(L, r, closing, v) ==
    IF r.err
    THEN Failed(r)
    ELSE IF Tok(L, r.i).Type # closing
    THEN Failed(r)
    ELSE [r EXCEPT !.i = next(L, r.i), !.v = v]

\* Parser.parseArray
parseArray(L, P) ==
    LET i1 == next(L, P.i)
        a == Len(P.h) + 1
    IN  closeValue(L, arrayLoop(L, [P EXCEPT !.h = Append(P.h, NewArray(Tok(L, i1).Pos)),
                                             !.i = i1], a),
                   TokEndArray, a)

\* One round of the loop of parseInline after its option is parsed into r.
nextOption(L, r, t) ==
    IF r.err
    THEN Failed(r)
    ELSE CASE Tok(L, r.i).Type = TokComma ->
                inlineLoop(L, [r EXCEPT !.i = next(L, r.i)], t)
           [] Tok(L, r.i).Type = TokEndInline -> inlineLoop(L, r, t)
           [] OTHER -> Failed(r)

\* The loop of parseInline; t is the inline Table being filled.
inlineLoop(L, P, t) ==
    IF Tok(L, P.i).Type \in {TokEOF, TokEndInline}
    THEN P
    ELSE nextOption(L, parseOption(L, P, t, FALSE), t)

\* Parser.parseInline
parseInline(L, P) ==
    LET i1 == next(L, P.i)
        t == Len(P.h) + 1
        key == [ZeroToken EXCEPT !.Pos = Tok(L, i1).Pos]
    IN  closeValue(L, inlineLoop(L, [P EXCEPT !.h = Append(P.h, NewTable(key, tableInline)),
                                              !.i = i1], t),
                   TokEndInline, t)

\* The loop of parseTable: it walks the header's path from the table t and
\* registers the table the header names; v is that table.
RECURSIVE tableLoop(_, _, _, _)
tableLoop(L, P, t, kind) ==
    LET c == Tok(L, P.i)
        peek == Tok(L, P.i + 1).Type
    IN
    IF c.Type = TokEOF
    THEN [P EXCEPT !.v = t]
    ELSE IF ~IsIdent(c)
    THEN Failed(P)
    ELSE IF peek = TokDot
    THEN LET r == retrieveTable(P.h, t, c)
         IN  IF r.err
             THEN Failed(P)
             ELSE tableLoop(L, [P EXCEPT !.h = r.h, !.i = next(L, next(L, P.i))],
                            r.x, kind)
    ELSE IF peek \in {TokEndRegularTable, TokEndArrayTable}
    THEN LET x == Len(P.h) + 1
             g == registerTable(Append(P.h, NewTable(c, kind)), t, x)
             i2 == next(L, next(L, P.i))
             hasC == isComment(Tok(L, i2))
             post == IF hasC THEN Tok(L, i2).Literal ELSE ""
             i3 == IF hasC THEN next(L, i2) ELSE i2
         IN  IF g.err
             THEN Failed(P)
             ELSE IF g.h[x].kind = tableItem /\ peek # TokEndArrayTable
             THEN Failed([P EXCEPT !.h = g.h])
             ELSE [P EXCEPT !.h = [g.h EXCEPT ![x].pre = P.com, ![x].post = post],
                            !.i = i3, !.v = x]
    ELSE Failed(P)

\* Parser.parseTable, up to its call of parseOptions: P.i is at the first
\* token after the opening bracket.
parseTable(L, P, t, kind) ==
    LET r == tableLoop(L, P, t, kind)
    IN  IF r.err
        THEN Failed(r)
        ELSE IF ~isNL(Tok(L, r.i))
        THEN Failed(r)
        ELSE [r EXCEPT !.i = next(L, r.i)]

----------------------------------------------------------------------------
(* The scanner (Scanner of scan.go).  I is the input, a sequence of        *)
(* characters; S is the scanner's state: pos and next count bytes from 0,  *)
(* char is the current character, buf the literal being written, cursor    *)
(* the position saved by backup, out the tokens emitted so far.  The       *)
(* character classes list the characters the model's inputs are made of:   *)
(* the branches of the code that only other characters reach (quotes, `_`, *)
(* `:`, `e`) are not part of the model.                                    *)

newline == "\n"

RuneError == "RuneError"

NUL == "NUL"

Letters == {"a", "b", "c", "f", "t", "x"}

Digits == {"0", "1", "2", "5"}

zero == "0"

hex == "x"

oct == "o"

bin == "b"

Signs == {"+", "-"}

Blanks == {" ", "\t"}

Alphabet ==
    Letters \cup Digits \cup Blanks
    \cup {newline, "#", "=", ".", ",", "[", "]", "{", "}"} \cup Signs

isDigit(r) == r \in Digits

isSign(r) == r \in Signs

Hexa == {"0", "1", "2", "3", "4", "5", "6", "7", "8", "9", "a", "b", "c", "d", "e", "f"}

Octal == {"0", "1", "2", "3", "4", "5", "6", "7"}

Binary == {"0", "1"}

isHexa(r) == r \in Hexa

isOctal(r) == r \in Octal

isBinary(r) == r \in Binary

isLetter(r) == r \in Letters

isAlpha(r) == isDigit(r) \/ isLetter(r)

isBlank(r) == r \in Blanks

isEOF(r) == r = NUL \/ r = RuneError

NewState ==
    [pos |-> 0, next |-> 0, char |-> NUL, line |-> 1, column |-> 0, buf |-> "",
     cursor |-> NoPos, out |-> <<>>]

\* A byte that starts no UTF-8 sequence, 0xFF.
Invalid == "0xFF"

\* utf8.DecodeRune on the input from the byte at: (RuneError, 0) past the
\* last byte, (RuneError, 1) on a byte that is not UTF-8.
DecodeRune(I, at) ==
    IF at >= Len(I)
    THEN [r |-> RuneError, n |-> 0]
    ELSE [r |-> IF I[at + 1] = Invalid THEN RuneError ELSE I[at + 1], n |-> 1]

\* Scanner.readRune: on RuneError next is set to the length of the input
\* before pos takes its value.
readRune(I, S) ==
    IF S.pos >= Len(I)
    THEN [S EXCEPT !.char = NUL]
    ELSE LET r == DecodeRune(I, S.next).r
             n == DecodeRune(I, S.next).n
             nx == IF r = RuneError THEN Len(I) ELSE S.next
         IN  [S EXCEPT !.char = r, !.pos = nx, !.next = nx + n,
                       !.line = IF r = newline THEN @ + 1 ELSE @,
                       !.column = (IF r = newline THEN 0 ELSE @) + 1]

nextRune(I, S) == DecodeRune(I, S.next).r

isDone(I, S) == S.pos >= Len(I) \/ isEOF(S.char)

\* Scanner.skip: read on while the current character is in the class.
RECURSIVE skip(_, _, _)
skip(I, S, class) ==
    IF S.char \in class THEN skip(I, readRune(I, S), class) ELSE S

writeRune(S, char) == [S EXCEPT !.buf = @ \o char]

\* backup that keeps the column and forgets the line.
backupColumn(S) == [S EXCEPT !.cursor = <<1, S.column>>]

\* Scanner.backup
backup(S) == [S EXCEPT !.cursor = <<S.line, S.column>>]

\* Scanner.emit: the token goes to the queue and the buffer is reset.
emit(S, kind) ==
    [S EXCEPT !.out = Append(@, [Type |-> kind, Literal |-> S.buf, Pos |-> S.cursor]),
              !.buf = ""]

RECURSIVE scanWhile(_, _, _, _)
scanWhile(I, S, kind, accept) ==
    IF ~isDone(I, S) /\ S.char \in accept
    THEN scanWhile(I, readRune(I, writeRune(S, S.char)), kind, accept)
    ELSE emit(S, kind)

NotNL == (Alphabet \cup {NUL, RuneError}) \ {newline}

scanIdent(I, S) == scanWhile(I, S, TokIdent, {r \in Alphabet : isAlpha(r)})

scanDigit(I, S) == scanWhile(I, S, TokIdent, Digits)

scanComment(I, S) == scanWhile(I, skip(I, readRune(I, S), Blanks), TokComment, NotNL)

scanIllegal(I, S) == scanWhile(I, S, TokIllegal, NotNL)

constants == [true |-> TokBool, false |-> TokBool, inf |-> TokFloat, nan |-> TokFloat]

\* The loop of scanConstant.
RECURSIVE constantLoop(_, _)
constantLoop(I, S) ==
    IF ~isDone(I, S) /\ isLetter(S.char)
    THEN constantLoop(I, readRune(I, writeRune(S, S.char)))
    ELSE S

scanConstant(I, S) ==
    LET s1 == IF isSign(S.char) THEN readRune(I, writeRune(S, S.char)) ELSE S
        s2 == constantLoop(I, s1)
    IN  emit(s2, IF s2.buf \in DOMAIN constants THEN constants[s2.buf] ELSE TokIllegal)

RECURSIVE digitLoop(_, _)
digitLoop(I, S) ==
    IF ~isDone(I, S) /\ isDigit(S.char)
    THEN digitLoop(I, readRune(I, writeRune(S, S.char)))
    ELSE S

\* scanFraction: the dot, then digits.
scanFraction(I, S) == digitLoop(I, readRune(I, writeRune(S, S.char)))

\* The loop of scanBase: the digits of the base.
RECURSIVE baseLoop(_, _, _)
baseLoop(I, S, accept) ==
    IF ~isDone(I, S) /\ S.char \in accept
    THEN baseLoop(I, readRune(I, writeRune(S, S.char)), accept)
    ELSE S

\* scanBase: the zero, the letter of the base, then the digits of the base.
scanBase(I, S) ==
    LET s1 == readRune(I, writeRune(S, S.char))
        accept == CASE s1.char = hex -> Hexa
                    [] s1.char = oct -> Octal
                    [] s1.char = bin -> Binary
                    [] OTHER -> {}
    IN  IF s1.char \notin {hex, oct, bin}
        THEN emit(s1, TokIllegal)
        ELSE emit(baseLoop(I, readRune(I, writeRune(s1, s1.char)), accept), TokInteger)

\* The end of scanDecimal: digits, then a fraction when a dot follows them.
scanDigits(I, S) ==
    LET s1 == digitLoop(I, S)
    IN  IF ~isDone(I, s1) /\ s1.char = "."
        THEN emit(scanFraction(I, s1), TokFloat)
        ELSE emit(s1, TokInteger)

\* scanDecimal: the sign (a minus is written, a plus is dropped), a zero that
\* a digit follows is illegal, then the digits.
scanDecimal(I, S) ==
    LET s1 == IF isSign(S.char)
              THEN readRune(I, IF S.char = "-" THEN writeRune(S, S.char) ELSE S)
              ELSE S
    IN  IF s1.char = zero /\ isDigit(nextRune(I, s1))
        THEN emit(readRune(I, s1), TokIllegal)
        ELSE scanDigits(I, s1)

RECURSIVE scanValue(_, _), scanArray(_, _), arrayScanLoop(_, _), scanInline(_, _),
          inlineScanLoop(_, _)

scanValue(I, S0) ==
    LET S == skip(I, S0, Blanks)
        v == CASE S.char = "[" -> scanArray(I, S)
               [] S.char = "{" -> scanInline(I, S)
               [] isDigit(S.char) \/ (isSign(S.char) /\ isDigit(nextRune(I, S))) ->
                      IF S.char = zero /\ nextRune(I, S) \in {hex, oct, bin}
                      THEN scanBase(I, S)
                      ELSE scanDecimal(I, S)
               [] isLetter(S.char) \/ (isSign(S.char) /\ isLetter(nextRune(I, S))) ->
                      scanConstant(I, S)
               [] OTHER -> scanIllegal(I, S)
        w == skip(I, v, Blanks)
    IN  IF isAlpha(w.char) THEN scanIllegal(I, w) ELSE w

\* The loop of scanArray.
arrayScanLoop(I, S0) ==
    IF isDone(I, S0)
    THEN S0
    ELSE LET S == skip(I, S0, Blanks \cup {newline})
         IN  CASE S.char = "]" -> emit(readRune(I, S), TokEndArray)
               [] S.char = "[" -> arrayScanLoop(I, scanArray(I, S))
               [] S.char = "{" -> arrayScanLoop(I, scanInline(I, S))
               [] S.char = "," -> arrayScanLoop(I, emit(readRune(I, S), TokComma))
               [] S.char = "#" -> arrayScanLoop(I, scanComment(I, S))
               [] OTHER -> arrayScanLoop(I, scanValue(I, S))

scanArray(I, S) == arrayScanLoop(I, readRune(I, emit(S, TokBegArray)))

\* The loop of scanInline.
inlineScanLoop(I, S) ==
    IF isDone(I, S)
    THEN S
    ELSE CASE S.char = "}" -> emit(readRune(I, S), TokEndInline)
           [] S.char = "," ->
                inlineScanLoop(I, skip(I, emit(readRune(I, S), TokComma), Blanks))
           [] S.char = "=" ->
                inlineScanLoop(I,
                    skip(I, scanValue(I, skip(I, emit(readRune(I, S), TokEqual), Blanks)),
                         Blanks))
           [] isLetter(S.char) -> inlineScanLoop(I, skip(I, scanIdent(I, S), Blanks))
           [] isDigit(S.char) -> inlineScanLoop(I, skip(I, scanDigit(I, S), Blanks))
           [] S.char = "#" -> inlineScanLoop(I, skip(I, scanComment(I, S), Blanks))
           [] OTHER -> scanIllegal(I, S)

scanInline(I, S) ==
    inlineScanLoop(I, skip(I, readRune(I, emit(S, TokBegInline)), Blanks))

\* scanDefault and scanValue as the loop of Scanner.scan calls them: fn is
\* the function the call returns, nil read as scanDefault.
scanDefault(I, S0) ==
    LET S == skip(I, S0, Blanks)
        closing == LET k == IF readRune(I, S).char = "]" THEN TokEndArrayTable
                            ELSE TokEndRegularTable
                       s1 == IF readRune(I, S).char = "]"
                             THEN readRune(I, readRune(I, S)) ELSE readRune(I, S)
                       s2 == skip(I, s1, Blanks)
                   IN  emit(s2, IF s2.char # "#" /\ s2.char # newline THEN TokIllegal
                                ELSE k)
    IN  CASE S.char = newline ->
               [s |-> emit(skip(I, S, Blanks \cup {newline}), TokNL), fn |-> "scanDefault"]
          [] S.char = "[" ->
               [s |-> IF readRune(I, S).char = "["
                      THEN emit(readRune(I, readRune(I, S)), TokBegArrayTable)
                      ELSE emit(readRune(I, S), TokBegRegularTable),
                fn |-> "scanDefault"]
          [] S.char = "]" -> [s |-> closing, fn |-> "scanDefault"]
          [] S.char = "." -> [s |-> emit(readRune(I, S), TokDot), fn |-> "scanDefault"]
          [] S.char = "=" -> [s |-> emit(readRune(I, S), TokEqual), fn |-> "scanValue"]
          [] isDigit(S.char) -> [s |-> scanDigit(I, S), fn |-> "scanDefault"]
          [] isLetter(S.char) -> [s |-> scanIdent(I, S), fn |-> "scanDefault"]
          [] S.char = "#" -> [s |-> scanComment(I, S), fn |-> "scanDefault"]
          [] OTHER -> [s |-> scanIllegal(I, S), fn |-> "scanDefault"]

\* One round of the loop of Scanner.scan.
scanRound(I, S, fn) ==
    IF fn = "scanValue"
    THEN [s |-> scanValue(I, backup(S)), fn |-> "scanDefault"]
    ELSE scanDefault(I, backup(S))

\* NewScanner: the first character is read and leading blank lines skipped.
NewScanner(I) == skip(I, readRune(I, NewState), Blanks \cup {newline})

\* The tokens the loop of Scanner.scan emits before it closes the queue.
RECURSIVE scanLoop(_, _, _)
scanLoop(I, S, fn) ==
    IF isDone(I, S)
    THEN S.out
    ELSE LET r == scanRound(I, S, fn) IN scanLoop(I, r.s, r.fn)

ScanAll(I) == scanLoop(I, NewScanner(I), "scanDefault")

DefaultRules ==
    [empty |-> FALSE, inline |-> FALSE, intconv |-> "identity", comment |-> TRUE]

FormatIdle ==
    /\ source = <<>>
    /\ rules = DefaultRules
    /\ fpc = "idle"
    /\ docs = <<>>
    /\ outs = <<>>
    /\ rets = <<>>
    /\ held = <<>>
    /\ again = <<>>

NumberIdle ==
    /\ number = <<>>
    /\ numrule = <<>>
    /\ shown = <<>>

EscapeIdle ==
    /\ escape = <<>>
    /\ escaped = <<>>

ParserIdle ==
    /\ heap = <<>>
    /\ curr = 0
    /\ status = "idle"
    /\ result = 0
    /\ doc = <<>>

\* The scanner with modes at rest.
ModesIdle ==
    /\ buffer = <<>>
    /\ s18 = <<>>
    /\ pc18 = "idle"
    /\ comm = <<>>
    /\ tokens18 = <<>>
    /\ keep = <<>>

\* The scanner's side at rest, while another part of the program runs.
ChannelIdle ==
    /\ input = <<>>
    /\ scn = NewState
    /\ scan = "scanDefault"
    /\ pending = <<>>
    /\ ppc = "idle"
    /\ cpc = "idle"
    /\ received = <<>>
    /\ scans = 0
    /\ calls = 0

----------------------------------------------------------------------------
(* The documents the parser is run on.  A line is what one round of the    *)
(* loop of parseOptions consumes: comment lines, then a key/value line or  *)
(* a table header, up to and including its newline.                        *)

Ident(k) == Token(TokIdent, k)

Punct(type) == Token(type, "")

NL == Punct(TokNL)

Paths == {<<"a">>, <<"b">>, <<"a", "b">>, <<"b", "a">>}

RECURSIVE Dotted(_)
Dotted(p) ==
    IF Len(p) = 1
    THEN <<Ident(p[1])>>
    ELSE <<Ident(p[1]), Punct(TokDot)>> \o Dotted(Tail(p))

One == <<Token(TokInteger, "1")>>

InlineB ==
    <<Punct(TokBegInline), Ident("b"), Punct(TokEqual), Token(TokInteger, "1"),
      Punct(TokEndInline)>>

HeaderLine(open, p, close) == <<Punct(open)>> \o Dotted(p) \o <<Punct(close), NL>>

OptionLine(p, value) == Dotted(p) \o <<Punct(TokEqual)>> \o value \o <<NL>>

HeaderLines ==
    {HeaderLine(TokBegRegularTable, p, TokEndRegularTable) : p \in Paths}
    \cup {HeaderLine(TokBegArrayTable, p, TokEndArrayTable) : p \in Paths}
    \cup {HeaderLine(TokBegRegularTable, <<"a">>, TokEndArrayTable),
          HeaderLine(TokBegArrayTable, <<"a">>, TokEndRegularTable)}

Values == {One, InlineB}

OptionLines == {OptionLine(p, v) : p \in Paths, v \in Values}

\* The pieces of an inline table as scanInline gives them: `a = 1`, a comma,
\* the closing brace; a newline between the braces gives an Illegal token.
AOne == <<Ident("a"), Punct(TokEqual), Token(TokInteger, "1")>>
Comma == <<Punct(TokComma)>>
Close == <<Punct(TokEndInline)>>

RECURSIVE Flatten(_)
Flatten(q) == IF q = <<>> THEN <<>> ELSE Head(q) \o Flatten(Tail(q))

InlineOf(pieces) == <<Punct(TokBegInline)>> \o Flatten(pieces)

ArrayOne == <<Punct(TokBegArray), Token(TokInteger, "1"), Punct(TokEndArray)>>

\* The option b with a comment line directly above it.
Commented(value) == <<Token(TokComment, "c"), NL>> \o OptionLine(<<"b">>, value)

\* Lines that hold an Illegal token, lack their newline, or carry comments.
OtherLines ==
    {<<Token(TokIllegal, "x"), NL>>,
     OptionLine(<<"a">>, <<Token(TokIllegal, "x")>>),
     <<Ident("a"), Punct(TokEqual), Token(TokInteger, "1")>>,
     Commented(One), Commented(ArrayOne), Commented(InlineB),
     OptionLine(<<"b">>, InlineOf(<<AOne, Comma, Close>>)),
     OptionLine(<<"b">>, InlineOf(<<Comma, AOne, Close>>)),
     OptionLine(<<"b">>, InlineOf(<<AOne, Comma, Comma, AOne, Close>>)),
     OptionLine(<<"b">>, InlineOf(<<AOne, Comma, <<Token(TokIllegal, "")>>>>))}

Lines == HeaderLines \cup OptionLines \cup OtherLines

\* The end of the input: nothing, or comment lines, before EOF.
EndLines == {<<>>, <<Token(TokComment, "c"), NL>>}

\* The tokens of the n-th line with their positions.
WithPos(line, n) == [j \in 1..Len(line) |-> [line[j] EXCEPT !.Pos = <<n, j>>]]

Root == 1

----------------------------------------------------------------------------
(* Parse as a state machine: one step per line of the document.            *)

Init ==
    /\ heap = <<NewTable(ZeroToken, tableRegular)>>
    /\ curr = Root
    /\ status = "running"
    /\ result = 0
    /\ doc = <<>>
    /\ ChannelIdle
    /\ ModesIdle
    /\ FormatIdle
    /\ NumberIdle
    /\ EscapeIdle

\* Parse returns nil and the error.
Fail(line) ==
    /\ heap' = <<>>
    /\ curr' = 0
    /\ status' = "error"
    /\ result' = 0
    /\ doc' = Append(doc, line)
    /\ UNCHANGED notParser

\* One round of the loop of parseOptions on a key/value line.
ParseOptionLine ==
    /\ status = "running"
    /\ Len(doc) < MaxLines
    /\ \E line \in Lines :
         LET L == WithPos(line, Len(doc) + 1)
             c == parseComment(L, PState(heap, 1, <<>>))
         IN  /\ ~isTable(Tok(L, c.i))
             /\ Tok(L, c.i).Type # TokEOF
             /\ LET r == parseOption(L, c, curr, TRUE)
                IN  IF ~r.err /\ isNL(Tok(L, r.i))
                    THEN /\ heap' = r.h
                         /\ doc' = Append(doc, line)
                         /\ UNCHANGED <<curr, status, result, notParser>>
                    ELSE Fail(line)

\* parseOptions meets a header and returns; the loop of Parse calls
\* parseTable on the root, and the table it registers takes the next lines.
ParseTableLine ==
    /\ status = "running"
    /\ Len(doc) < MaxLines
    /\ \E line \in Lines :
         LET L == WithPos(line, Len(doc) + 1)
             c == parseComment(L, PState(heap, 1, <<>>))
             kind == IF Tok(L, c.i).Type = TokBegArrayTable THEN tableItem
                     ELSE tableRegular
         IN  /\ isTable(Tok(L, c.i))
             /\ LET r == parseTable(L, [c EXCEPT !.i = next(L, c.i)], Root, kind)
                IN  IF ~r.err
                    THEN /\ heap' = r.h
                         /\ curr' = r.v
                         /\ doc' = Append(doc, line)
                         /\ UNCHANGED <<status, result, notParser>>
                    ELSE Fail(line)

\* The input ends: parseOptions and the loop of Parse stop at EOF and Parse
\* returns the root.
ParseEnd ==
    /\ status = "running"
    /\ \E line \in EndLines :
         LET L == WithPos(line, Len(doc) + 1)
             c == parseComment(L, PState(heap, 1, <<>>))
         IN  /\ Tok(L, c.i).Type = TokEOF
             /\ status' = "ok"
             /\ result' = Root
             /\ doc' = Append(doc, line)
             /\ UNCHANGED <<heap, curr, notParser>>

Next == ParseOptionLine \/ ParseTableLine \/ ParseEnd

Spec == Init /\ [][Next]_vars

----------------------------------------------------------------------------
(* The scanner's goroutine and the caller of Scan.  The queue is an        *)
(* unbuffered channel: emit blocks until a Scan is there to receive.       *)
(* pending holds the tokens of the running round of Scanner.scan that are  *)
(* still to be sent, ppc is where the goroutine is ("loop": at the test of *)
(* its loop, "emit": blocked in emit, "closed": returned, the queue        *)
(* closed), cpc where the caller is ("idle", or "recv": blocked in Scan).  *)

TextLines ==
    {<<"a", "=", "1", newline>>,
     <<"[", "a", ".", "b", "]", newline>>,
     <<"b", " ", "=", " ", "{", "a", "=", "1", "}", newline>>,
     <<"a", "=", "[", "1", ",", "2", "]", newline>>,
     <<"a", "=", newline>>,
     <<"#", " ", "x">>,
     <<"a", "=", "1", ".", "2">>,
     <<"1", "-", "2", "=", "1", newline>>}

MaxScanLines == 2

\* Scan calls made after the stream has been handed over in full.
MaxExtraScans == 2

RECURSIVE Texts(_)
Texts(n) ==
    IF n = 0
    THEN {<<>>}
    ELSE Texts(n - 1) \cup {t \o l : t \in Texts(n - 1), l \in TextLines}

\* Scan that leaves the token of a closed queue as it is.
ScanZeroOnClosed(tok, ok) == tok

\* Scanner.Scan: the receive gave tok and ok.
Scan(tok, ok) == IF ~ok THEN [tok EXCEPT !.Literal = "", !.Type = TokEOF] ELSE tok

\* The value a receive from a closed channel gives.
ZeroValue == ZeroToken

InitScan ==
    /\ ParserIdle
    /\ ModesIdle
    /\ FormatIdle
    /\ NumberIdle
    /\ EscapeIdle
    /\ input \in Texts(MaxScanLines)
    /\ scn = NewScanner(input)
    /\ scan = "scanDefault"
    /\ pending = <<>>
    /\ ppc = "loop"
    /\ cpc = "idle"
    /\ received = <<>>
    /\ scans = 0
    /\ calls = 0

\* One round of the loop of Scanner.scan, up to its first emit.
ProducerRound ==
    /\ ppc = "loop"
    /\ ~isDone(input, scn)
    /\ LET r == scanRound(input, [scn EXCEPT !.out = <<>>], scan)
       IN  /\ scn' = r.s
           /\ scan' = r.fn
           /\ pending' = r.s.out
           /\ ppc' = IF r.s.out = <<>> THEN "loop" ELSE "emit"
    /\ UNCHANGED <<input, cpc, received, scans, notChannel>>

\* The loop ends and the deferred close runs.
ProducerClose ==
    /\ ppc = "loop"
    /\ isDone(input, scn)
    /\ ppc' = "closed"
    /\ UNCHANGED <<input, scn, scan, pending, cpc, received, scans, notChannel>>

\* The caller enters Scan and waits on the queue.
CallScan ==
    /\ cpc = "idle"
    /\ scans < Len(ScanAll(input)) + MaxExtraScans
    /\ cpc' = "recv"
    /\ scans' = scans + 1
    /\ UNCHANGED <<input, scn, scan, pending, ppc, received, notChannel>>

\* The send of emit meets the receive of Scan.
Handoff ==
    /\ ppc = "emit"
    /\ cpc = "recv"
    /\ received' = Append(received, Scan(Head(pending), TRUE))
    /\ pending' = Tail(pending)
    /\ ppc' = IF Tail(pending) = <<>> THEN "loop" ELSE "emit"
    /\ cpc' = "idle"
    /\ UNCHANGED <<input, scn, scan, scans, notChannel>>

\* The receive of Scan on the closed queue.
ScanClosed ==
    /\ ppc = "closed"
    /\ cpc = "recv"
    /\ received' = Append(received, Scan(ZeroValue, FALSE))
    /\ cpc' = "idle"
    /\ UNCHANGED <<input, scn, scan, pending, ppc, scans, notChannel>>

NextScan == ProducerRound \/ ProducerClose \/ CallScan \/ Handoff \/ ScanClosed

SpecScan == InitScan /\ [][NextScan]_vars

\* C10: the tokens Scan has returned are the first tokens the goroutine
\* emits, in their order and once each, followed by EOF tokens only; EOF is
\* returned only once the queue is closed and every token handed over, and
\* then by every call; and a Scan that waits when the goroutine is at the
\* end of the input is not blocked.
Delivered ==
    \E k \in 0..Len(received) :
        /\ k <= Len(ScanAll(input))
        /\ SubSeq(received, 1, k) = SubSeq(ScanAll(input), 1, k)
        /\ \A j \in (k + 1)..Len(received) : received[j] = EOFToken
        /\ k < Len(received) => (ppc = "closed" /\ k = Len(ScanAll(input)))
        /\ k = Len(ScanAll(input)) - Len(pending)
               - (IF ppc = "closed" THEN 0
                  ELSE Len(scanLoop(input, [scn EXCEPT !.out = <<>>], scan)))

\* A Scan that waits when the goroutine is at the end of the input can go
\* on: the queue is closed, or the goroutine is about to close it.
NeverStuck ==
    (cpc = "recv" /\ ppc # "emit" /\ isDone(input, scn))
        => ENABLED (ProducerClose \/ ScanClosed)

\* C10: Scan returns the tokens in the order the goroutine emitted them, then
\* the EOF token on every later call, and a call of Scan is never left waiting.
C10_ScanOrder == Delivered /\ NeverStuck

\* The whole stream of `a=1` and a header has been handed over and two more
\* Scan calls have returned.
C10_Witness ==
    /\ input = <<"a", "=", "1", newline, "[", "a", ".", "b", "]", newline>>
    /\ Len(received) = Len(ScanAll(input)) + MaxExtraScans
    /\ ScanAll(input) # <<>>
    /\ received[Len(received)] = EOFToken
    /\ cpc = "idle"

\* The positions of the tokens q never go backwards, line first and column
\* second.
NeverBackwards(q) == \A i \in 1..(Len(q) - 1) : ~PosLess(q[i + 1].Pos, q[i].Pos)

\* C11 as it is stated: the positions of the tokens successive calls of Scan
\* have returned never go backwards, whatever the input.
C11_EveryToken == NeverBackwards(received)

\* C11: the positions of the tokens Scan returns before the EOF token never
\* go backwards; the EOF token of the closed queue holds the zero Position.
C11_PositionsMonotone ==
    /\ NeverBackwards(SelectSeq(received, LAMBDA t : t.Type # TokEOF))
    /\ \A i \in 1..Len(received) : received[i].Type = TokEOF => received[i].Pos = NoPos

\* Tokens of two lines have been returned, and the EOF token after them.
C11_Witness ==
    /\ Len(received) >= 3
    /\ received[Len(received)].Type = TokEOF
    /\ received[Len(received) - 1].Type # TokEOF
    /\ \E i \in 1..(Len(received) - 2) :
           /\ received[i].Pos[1] < received[i + 1].Pos[1]
           /\ received[i].Pos[2] > received[i + 1].Pos[2]

\* C15 on the scanner of scan.go: the first token of a line that starts with
\* the key 1-2 is the one Ident token 1-2.
C15_KeyIsOneIdent ==
    (Len(received) >= 1 /\ Len(input) >= 3 /\ SubSeq(input, 1, 3) = <<"1", "-", "2">>)
        => (received[1].Type = TokIdent /\ received[1].Literal = "1-2")

----------------------------------------------------------------------------
(* The scanner with modes (Scanner of part_018, the revision whose Scan is *)
(* called by the parser, without a goroutine).  B is the buffer, S the     *)
(* scanner.  The model's buffers are made of a letter, digits, signs, `=`, *)
(* `#`, blanks and newlines: they hold no quote, bracket, `.`, `:`, `_`,   *)
(* `e` and no base prefix, so scanString, scanFraction, scanExponent,      *)
(* scanMillis and scanNumberWith are never called.                         *)

\* The character readRune sets at the end of the buffer; the constants of
\* this revision are not in src, internal/scan sets EOF to -1.
EOF18 == "EOF"

\* utf8.RuneLen: -1 for what is not a valid rune.
RuneLen(r) == IF r = EOF18 THEN -1 ELSE 1

scanKey == "scanKey"

scanValueMode == "scanValue"

isNewline(r) == r = newline

isPunct(r) == r \in {"=", ".", "[", "]", "}", "{", ","}

isIdent(r) == isAlpha(r) \/ r = "-" \/ r = "_"

Token18(type, lit, pos) == [Type |-> type, Literal |-> lit, Pos |-> pos]

readRune18(B, S) ==
    IF S.next >= Len(B)
    THEN [S EXCEPT !.char = EOF18]
    ELSE LET r == B[S.next + 1]
         IN  [S EXCEPT !.char = r, !.pos = S.next, !.next = S.next + 1,
                       !.line = IF r = newline THEN @ + 1 ELSE @,
                       !.rowlen = IF r = newline THEN S.column ELSE @,
                       !.column = IF r = newline THEN 0 ELSE @ + 1]

\* Scanner.unreadRune, called on a character of the buffer.
unreadRune18(B, S) ==
    IF S.next <= 0 \/ S.char = NUL
    THEN S
    ELSE LET p == S.pos - RuneLen(S.char)
         IN  [S EXCEPT !.line = IF S.char = newline THEN @ - 1 ELSE @,
                       !.column = IF S.char = newline THEN S.rowlen ELSE @ - 1,
                       !.next = S.pos,
                       !.pos = p,
                       !.char = IF p >= 0 /\ p < Len(B) THEN B[p + 1] ELSE RuneError]

peekRune18(B, S) == IF S.next >= Len(B) THEN EOF18 ELSE B[S.next + 1]

RECURSIVE skipWith18(_, _, _)
skipWith18(B, S, class) ==
    IF S.char \in class THEN skipWith18(B, readRune18(B, S), class) ELSE S

\* The width of the field stack in the model.  It is a uint, of 32 or 64
\* bits with the build; what the model keeps of it is that the counter is
\* unsigned, so that 0 - 1 is its largest value.
UintWidth == 16

switchMode(S) ==
    IF isNewline(S.char) /\ S.mode = scanValueMode /\ S.stack = 0
    THEN [S EXCEPT !.mode = scanKey]
    ELSE IF S.mode = scanValueMode /\ S.char \in {"{", "["}
    THEN [S EXCEPT !.stack = (@ + 1) % 2^UintWidth]
    ELSE IF S.mode = scanValueMode /\ S.char \in {"}", "]"}
    THEN [S EXCEPT !.stack = (@ - 1) % 2^UintWidth]
    ELSE IF S.mode = scanKey /\ S.char = "="
    THEN [S EXCEPT !.mode = scanValueMode]
    ELSE S

\* Scan of part_018: the scanner on a new buffer.
NewScanner18(B) ==
    skipWith18(B,
               readRune18(B, [pos |-> 0, next |-> 0, char |-> NUL, mode |-> scanKey,
                              stack |-> 0, line |-> 1, column |-> 0, rowlen |-> 0]),
               {newline})

\* string(s.buffer[from : to]): the characters as one string.
RECURSIVE Slice(_, _, _)
Slice(B, from, to) ==
    IF from >= to THEN "" ELSE B[from + 1] \o Slice(B, from + 1, to)

\* The slice expression panics when its bounds are not in order.
SliceOK(B, from, to) == 0 <= from /\ from <= to /\ to <= Len(B)

\* The loop of scanIdent: the scanner after it and the offset it counted.
RECURSIVE identLoop(_, _, _)
identLoop(B, S, offset) ==
    IF isIdent(S.char)
    THEN LET s1 == readRune18(B, S) IN identLoop(B, s1, offset + RuneLen(s1.char))
    ELSE [s |-> S, offset |-> offset]

\* Scanner.readRuneN
RECURSIVE readRuneN(_, _, _)
readRuneN(B, S, n) ==
    IF n = 0 \/ S.char = EOF18 THEN S ELSE readRuneN(B, readRune18(B, S), n - 1)

isDelim(r) == r \in {"]", "}", ","}

isWhitespace(r) == isBlank(r) \/ isNewline(r)

\* eol of scanNumber
eol(r) == isDelim(r) \/ isWhitespace(r) \/ r = EOF18

\* What a scanning function of a number returns: the scanner after it and
\* the type it has set.
Scanned(S, type) == [s |-> S, type |-> type]

\* Scanner.scanTimezone: without a colon it is Illegal after three runes.
timezoneColon(B, s1) ==
    IF s1.char # ":"
    THEN Scanned(s1, "Illegal")
    ELSE Scanned(readRuneN(B, s1, 2), "Time")

scanTimezone18(B, S) == timezoneColon(B, readRuneN(B, S, 3))

\* Scanner.scanTime on a buffer without `.`: it asks for a colon three runes
\* on (unless it is called on one), for another three runes after it, and
\* reads three runes more.
timeEnd(B, s3) ==
    Scanned(IF isNewline(s3.char) \/ isPunct(s3.char) \/ s3.char = EOF18
            THEN unreadRune18(B, s3) ELSE s3,
            "Time")

timeMinutes(B, s2) ==
    IF s2.char # ":" THEN Scanned(s2, "Illegal") ELSE timeEnd(B, readRuneN(B, s2, 3))

timeHours(B, s1) ==
    IF s1.char # ":" THEN Scanned(s1, "Illegal") ELSE timeMinutes(B, readRuneN(B, s1, 3))

scanTime18(B, S) == timeHours(B, IF S.char # ":" THEN readRuneN(B, S, 3) ELSE S)

\* Scanner.scanDate, called on the `-` after the first digits: the month,
\* the day, then a time and its zone when a `T` or a space follows.
dateZone(tm, tz) ==
    Scanned(tz.s, IF tm.type = "Illegal" \/ tz.type = "Illegal"
                  THEN "Illegal" ELSE "DateTime")

dateTime(B, tm) ==
    IF tm.s.char \in {"+", "-"}
    THEN dateZone(tm, scanTimezone18(B, tm.s))
    ELSE Scanned(tm.s, IF tm.type = "Illegal" THEN "Illegal" ELSE "DateTime")

dateDay(B, s2) ==
    IF s2.char = "T" \/ s2.char = " "
    THEN dateTime(B, scanTime18(B, s2))
    ELSE IF isNewline(s2.char) \/ isPunct(s2.char) \/ s2.char = EOF18
    THEN Scanned(unreadRune18(B, s2), "Date")
    ELSE Scanned(s2, "Illegal")

dateMonth(B, s1) ==
    IF s1.char # "-" THEN Scanned(s1, "Illegal") ELSE dateDay(B, readRuneN(B, s1, 3))

scanDate18(B, S) == dateMonth(B, readRuneN(B, S, 3))

\* The loop of scanNumber over the leading zeros.
RECURSIVE zerosLoop(_, _, _)
zerosLoop(B, S, zeros) ==
    IF S.char = "0"
    THEN zerosLoop(B, readRune18(B, S), zeros + 1)
    ELSE [s |-> S, zeros |-> zeros]

RECURSIVE numberLoop(_, _, _, _), numberNext(_, _, _)

\* A round of the main loop of scanNumber after scanDate or scanTime, which
\* returned d: a date or a time after a sign is Illegal.
numberNext(B, d, signed) ==
    numberLoop(B, readRune18(B, d.s), IF signed THEN "Illegal" ELSE d.type, signed)

\* The main loop of scanNumber.
numberLoop(B, S, type, signed) ==
    IF type = "Illegal" \/ eol(S.char)
    THEN Scanned(S, type)
    ELSE IF isDigit(S.char)
    THEN numberLoop(B, readRune18(B, S), type, signed)
    ELSE IF S.char = "-"
    THEN numberNext(B, scanDate18(B, S), signed)
    ELSE IF S.char = ":"
    THEN numberNext(B, scanTime18(B, S), signed)
    ELSE numberLoop(B, readRune18(B, S), "Illegal", signed)

\* The end of scanNumber: S is the scanner after unreadRune; the literal of
\* the token is s.buffer[pos : s.pos+1].
numberToken(S, type, pos) ==
    [s |-> S, type |-> type, from |-> pos, to |-> S.pos + 1]

\* scanNumber after its main loop, which returned n.
numberEnd(B, pos, zeros, n) ==
    numberToken(unreadRune18(B, n.s),
                IF (n.type = "Integer" /\ zeros > 0) \/ (n.type = "Float" /\ zeros > 1)
                THEN "Illegal" ELSE n.type,
                pos)

\* scanNumber after the loop over the zeros, which returned z.
numberZeros(B, pos, z, signed) ==
    IF eol(z.s.char)
    THEN numberToken(unreadRune18(B, z.s),
                     IF z.zeros > 1 THEN "Illegal" ELSE "Integer", pos)
    ELSE numberEnd(B, pos, z.zeros, numberLoop(B, z.s, "Integer", signed))

\* scanNumber after the sign: s1 is the scanner on the first digit.
numberSign(B, S, s1, signed) ==
    numberZeros(B, IF signed /\ S.char = "+" THEN s1.pos ELSE S.pos,
                zerosLoop(B, s1, 0), signed)

\* Scanner.scanNumber: the scanner after it, the type and the bounds of the
\* literal of its token.
scanNumber18(B, S, signed) ==
    numberSign(B, S, IF signed THEN readRune18(B, S) ELSE S, signed)

\* The end of Scan after scanNumber, which returned nb.
numberResult(B, nb, pos) ==
    IF SliceOK(B, nb.from, nb.to)
    THEN [pc |-> "idle", s |-> readRune18(B, nb.s),
          tok |-> <<Token18(nb.type, Slice(B, nb.from, nb.to), pos)>>,
          comm |-> <<>>]
    ELSE [pc |-> "panic", s |-> nb.s, tok |-> <<>>, comm |-> <<>>]

\* One pass through the body of Scanner.Scan, up to its return, to its call
\* of itself (pc "scan") or into the loop of scanComment (pc "comment").
ScanBody(B, S, k) ==
    IF S.char = EOF18
    THEN [pc |-> "idle", s |-> S, tok |-> <<Token18("EOF", "", NoPos)>>, comm |-> <<>>]
    ELSE
    LET s1 == skipWith18(B, S, Blanks)
        pos == <<s1.line, s1.column>>
        s2 == switchMode(s1)
        id == identLoop(B, s2, 0)
        lit == Slice(B, s2.pos, s2.pos + id.offset)
        kind == IF s2.mode = scanKey THEN "Ident"
                ELSE IF lit \in {"true", "false"} THEN "Bool"
                ELSE IF lit \in {"inf", "nan"} THEN "Float"
                ELSE "Ident"
        c1 == skipWith18(B, readRune18(B, s2), Blanks)
    IN  CASE s2.char = "#" ->
               [pc |-> "comment", s |-> c1, tok |-> <<>>,
                comm |-> [pos |-> c1.pos, offset |-> 0, at |-> pos]]
          [] isLetter(s2.char) \/ (s2.mode = scanKey /\ isDigit(s2.char)) ->
               IF SliceOK(B, s2.pos, s2.pos + id.offset)
               THEN [pc |-> "idle", s |-> readRune18(B, unreadRune18(B, id.s)),
                     tok |-> <<Token18(kind, lit, pos)>>, comm |-> <<>>]
               ELSE [pc |-> "panic", s |-> id.s, tok |-> <<>>, comm |-> <<>>]
          [] (s2.mode = scanValueMode /\ isDigit(s2.char)) \/ isSign(s2.char) ->
               numberResult(B, scanNumber18(B, s2, isSign(s2.char)), pos)
          [] isPunct(s2.char) ->
               [pc |-> "idle", s |-> readRune18(B, s2),
                tok |-> <<Token18(s2.char, "", pos)>>, comm |-> <<>>]
          [] isNewline(s2.char) ->
               IF ~k.multiline /\ peekRune18(B, s2) = newline
               THEN [pc |-> "scan", s |-> readRune18(B, s2), tok |-> <<>>, comm |-> <<>>]
               ELSE [pc |-> "idle", s |-> readRune18(B, s2),
                     tok |-> <<Token18("Newline", "", pos)>>, comm |-> <<>>]
          [] OTHER ->
               [pc |-> "idle", s |-> readRune18(B, s2),
                tok |-> <<Token18("Illegal", "", pos)>>, comm |-> <<>>]

ModeLines ==
    {<<"a", "=", "a", newline>>,
     <<"#", " ", "a", newline>>,
     <<"a", " ", "#", "a", newline>>,
     <<newline>>,
     <<"#", "a">>,
     <<"a">>,
     <<"1", "-", "0", "5", "-", "1", "2", "=", "1", "-", "0", "5", "-", "1", "2", newline>>,
     <<"-", "1", " ", "=", "-", "1", newline>>,
     <<"+", "1", " ", "=", "+", "1", newline>>,
     <<"a", "=", "[", "a", "]", newline>>,
     <<"a", "=", "]", newline>>,
     <<"a", "=", "a", " ", "#", "a", newline>>}

MaxModeLines == 2

RECURSIVE ModeTexts(_)
ModeTexts(n) ==
    IF n = 0
    THEN {<<>>}
    ELSE ModeTexts(n - 1) \cup {t \o l : t \in ModeTexts(n - 1), l \in ModeLines}

\* Tokens returned before the caller stops calling Scan.
MaxTokens18 == 6

\* MaxRounds of the loop of scanComment at the end of the buffer that the model
\* follows.
MaxSpin == 3

InitModes ==
    /\ ParserIdle
    /\ ChannelIdle
    /\ FormatIdle
    /\ NumberIdle
    /\ EscapeIdle
    /\ buffer \in ModeTexts(MaxModeLines)
    /\ s18 = NewScanner18(buffer)
    /\ pc18 = "idle"
    /\ comm = <<>>
    /\ tokens18 = <<>>
    /\ keep \in [comment : BOOLEAN, multiline : BOOLEAN]

\* The caller calls Scan.
ScanCall ==
    /\ pc18 = "idle"
    /\ Len(tokens18) < MaxTokens18
    /\ pc18' = "scan"
    /\ UNCHANGED <<buffer, s18, comm, tokens18, keep, notModes>>

\* Scan runs to its return, to its call of itself, or into scanComment.
ScanPass ==
    /\ pc18 = "scan"
    /\ LET r == ScanBody(buffer, s18, keep)
       IN  /\ pc18' = r.pc
           /\ s18' = r.s
           /\ comm' = r.comm
           /\ tokens18' = tokens18 \o r.tok
    /\ UNCHANGED <<buffer, keep, notModes>>

\* One round of the loop of scanComment.
CommentStep ==
    /\ pc18 = "comment"
    /\ ~isNewline(s18.char)
    /\ comm.offset > -MaxSpin
    /\ s18' = readRune18(buffer, s18)
    /\ comm' = [comm EXCEPT !.offset = @ + RuneLen(s18'.char)]
    /\ UNCHANGED <<buffer, pc18, tokens18, keep, notModes>>

\* The loop of scanComment ends at a newline; Scan drops the comment and
\* calls itself, or returns it.
CommentEnd ==
    /\ pc18 = "comment"
    /\ isNewline(s18.char)
    /\ LET s1 == readRune18(buffer, unreadRune18(buffer, s18))
           lit == Slice(buffer, comm.pos, comm.pos + comm.offset)
       IN  IF ~SliceOK(buffer, comm.pos, comm.pos + comm.offset)
           THEN /\ pc18' = "panic"
                /\ UNCHANGED <<s18, tokens18>>
           ELSE IF ~keep.comment
           THEN /\ pc18' = "scan"
                /\ s18' = s1
                /\ UNCHANGED tokens18
           ELSE /\ pc18' = "idle"
                /\ s18' = readRune18(buffer, readRune18(buffer, s1))
                /\ tokens18' = Append(tokens18, Token18("Comment", lit, comm.at))
    /\ comm' = <<>>
    /\ UNCHANGED <<buffer, keep, notModes>>

NextModes == ScanCall \/ ScanPass \/ CommentStep \/ CommentEnd

SpecModes == InitModes /\ [][NextModes]_vars

\* The mode and the nesting the characters q from the i-th on lead to, from
\* the mode and the depth before them: `=` in Key mode opens Value mode, a
\* newline at depth 0 closes it, `[` and `{` in Value mode add one to the
\* depth and `]` and `}` take one from it unless it is 0.  The characters
\* of a comment, from `#` to the newline, count for nothing.
RECURSIVE ModeAfter(_, _, _, _, _)
ModeAfter(q, i, mode, depth, comment) ==
    IF i > Len(q)
    THEN [mode |-> mode, stack |-> depth]
    ELSE IF comment /\ q[i] # newline
    THEN ModeAfter(q, i + 1, mode, depth, TRUE)
    ELSE IF q[i] = "#"
    THEN ModeAfter(q, i + 1, mode, depth, TRUE)
    ELSE IF q[i] = newline
    THEN ModeAfter(q, i + 1,
                   IF mode = scanValueMode /\ depth = 0 THEN scanKey ELSE mode, depth, FALSE)
    ELSE IF mode = scanKey
    THEN ModeAfter(q, i + 1, IF q[i] = "=" THEN scanValueMode ELSE mode, depth, FALSE)
    ELSE IF q[i] \in {"{", "["}
    THEN ModeAfter(q, i + 1, mode, depth + 1, FALSE)
    ELSE IF q[i] \in {"}", "]"}
    THEN ModeAfter(q, i + 1, mode, IF depth > 0 THEN depth - 1 ELSE 0, FALSE)
    ELSE ModeAfter(q, i + 1, mode, depth, FALSE)

\* The characters of the buffer the scanner is past: those before its
\* current character, all of them at the end of the buffer.
Passed == IF s18.char = EOF18 THEN buffer ELSE SubSeq(buffer, 1, s18.pos)

\* C26: between the calls of Scan the nesting counter is the number of `[`
\* and `{` scanned in Value mode and not yet matched, never below zero,
\* and the scanner is in Value mode from an `=` scanned in Key mode to the
\* next newline reached at nesting 0, comments being retained or not.
C26_ModeAndNesting ==
    pc18 = "idle" =>
        /\ s18.mode = ModeAfter(Passed, 1, scanKey, 0, FALSE).mode
        /\ s18.stack = ModeAfter(Passed, 1, scanKey, 0, FALSE).stack

\* The brackets of the values scanned so far are matched in their order.
RECURSIVE Balanced(_, _, _)
Balanced(q, i, depth) ==
    IF i > Len(q)
    THEN TRUE
    ELSE IF q[i] \in {"{", "["}
    THEN Balanced(q, i + 1, depth + 1)
    ELSE IF q[i] \in {"}", "]"}
    THEN depth > 0 /\ Balanced(q, i + 1, depth - 1)
    ELSE Balanced(q, i + 1, depth)

\* Without retained comments and without a closing bracket that has no
\* opening one, the mode and the counter are as the claim says.
C26_CommentsDropped ==
    (pc18 = "idle" /\ ~keep.comment /\ Balanced(Passed, 1, 0)) =>
        /\ s18.mode = ModeAfter(Passed, 1, scanKey, 0, FALSE).mode
        /\ s18.stack = ModeAfter(Passed, 1, scanKey, 0, FALSE).stack

\* C9: a round of a scanning loop that leaves Scan inside the loop consumes
\* at least one character of the input, or reaches its end: so every call
\* of Scan returns after at most as many rounds as the input has characters.
ConsumesOrEnds ==
    (pc18 = "comment" /\ pc18' = "comment")
        => \/ s18'.next > s18.next
           \/ (s18.char # EOF18 /\ s18'.char = EOF18)

\* C9: every round of a loop of the scanner consumes input or meets the end
\* of it, so Scan returns on every buffer.
C9_ScanTerminates == [][ConsumesOrEnds]_vars

\* The i-th token Scan returned is in Key context: no `=` was returned
\* between it and the Newline token before it.
InKeyContext(q, i) ==
    \A j \in 1..(i - 1) :
        q[j].Type = "=" => \E k \in (j + 1)..(i - 1) : q[k].Type = "Newline"

NumberOrDate == {"Integer", "Float", "Date", "DateTime", "Time"}

\* C15: a token scanned in Key context is never a number or a date; the
\* digits, dashes and signs left of `=` give identifiers.
C15_KeyContext ==
    \A i \in 1..Len(tokens18) :
        InKeyContext(tokens18, i) => tokens18[i].Type \notin NumberOrDate

\* C15, the other half: the date left of `=` is one Ident token, and right
\* of `=` the same text is one Date token, a signed number one Integer.
C15_ValueContext ==
    \A i \in 1..Len(tokens18) :
        /\ tokens18[i].Literal = "1-05-12" =>
               tokens18[i].Type = IF InKeyContext(tokens18, i) THEN "Ident" ELSE "Date"
        /\ (~InKeyContext(tokens18, i) /\ tokens18[i].Literal \in {"-1", "1"}) =>
               tokens18[i].Type = "Integer"

----------------------------------------------------------------------------
(* Parse on a whole token stream, and the formatter (Formatter of          *)
(* format.go).  W is the formatter at work: out is what it has written, h  *)
(* the tree it reads (formatOptions changes the inline tables it lifts).   *)
(* R is the rule set: empty is withEmpty, inline is withInline; the other  *)
(* rules keep their defaults.  The trees the model formats hold integers   *)
(* and inline tables, no comments, strings or arrays.                      *)

\* Parser.parseOptions
RECURSIVE parseOptions(_, _, _)
parseOptions(L, P, t) ==
    LET c == parseComment(L, P)
    IN  IF isTable(Tok(L, c.i)) \/ Tok(L, c.i).Type = TokEOF
        THEN c
        ELSE LET r == parseOption(L, c, t, TRUE)
             IN  IF r.err \/ ~isNL(Tok(L, r.i))
                 THEN Failed(r)
                 ELSE parseOptions(L, [r EXCEPT !.i = next(L, r.i)], t)

\* The end of Parser.parseTable: r is the parser after the header, and the
\* lines that follow go to the table it registered.
tableOptions(L, r) == IF r.err THEN Failed(r) ELSE parseOptions(L, r, r.v)

RECURSIVE parseTables(_, _), nextTable(_, _)

\* One round of the loop of Parser.Parse, after its call of parseTable.
nextTable(L, o) == IF o.err THEN Failed(o) ELSE parseTables(L, o)

\* The loop of Parser.Parse over the table headers.
parseTables(L, P) ==
    IF Tok(L, P.i).Type = TokEOF
    THEN P
    ELSE IF ~isTable(Tok(L, P.i))
    THEN Failed(P)
    ELSE LET kind == IF Tok(L, P.i).Type = TokBegArrayTable THEN tableItem
                     ELSE tableRegular
         IN  nextTable(L, tableOptions(L, parseTable(L, [P EXCEPT !.i = next(L, P.i)],
                                                     Root, kind)))

\* What Parser.Parse returns when r is the parser at its end: the tree (its
\* root is Root), or nil and the error.
parsed(r) == IF r.err THEN [err |-> TRUE, h |-> <<>>] ELSE [err |-> FALSE, h |-> r.h]

\* The parser when Parser.Parse returns: its field i is the place of curr
\* in the token stream, and peek is the token after it.
ParserEnd(L) ==
    nextTable(L, parseOptions(L, PState(<<NewTable(ZeroToken, tableRegular)>>, 1, <<>>),
                              Root))

\* Parser.Parse
Parse(L) == parsed(ParserEnd(L))

\* The bytes of a string of the tree: the strings of the model's trees are
\* made of at most MaxWord letters and digits.
MaxWord == 3

RECURSIVE Join(_)
Join(q) == IF q = <<>> THEN "" ELSE Head(q) \o Join(Tail(q))

Words == UNION {[1..n -> Letters \cup Digits] : n \in 0..MaxWord}

Spelling == [q \in Words |-> Join(q)]

Bytes(str) == CHOOSE q \in Words : Spelling[q] = str

----------------------------------------------------------------------------
(* The number converters of the formatter (formatInteger, withUnderscore,  *)
(* insertUnderscore of format.go) and the functions of strconv they call.  *)
(* A number is the sequence of its characters.                             *)

Digits10 == {"0", "1", "2", "3", "4", "5", "6", "7", "8", "9"}

DigitOrder ==
    <<"0", "1", "2", "3", "4", "5", "6", "7", "8", "9", "a", "b", "c", "d", "e", "f">>

DigitValue(c) == (CHOOSE i \in 1..Len(DigitOrder) : DigitOrder[i] = c) - 1

\* The value of the digits q in the base, most significant first.
RECURSIVE Value(_, _)
Value(q, base) ==
    IF q = <<>>
    THEN 0
    ELSE Value(SubSeq(q, 1, Len(q) - 1), base) * base + DigitValue(q[Len(q)])

\* strconv.ParseInt(str, 0, 64): a sign, then a prefix that gives the base
\* (0x, 0o, 0b, a lone 0 for octal), then digits of that base.  The numbers
\* of the model are short: none is out of the range of 64 bits, none holds an
\* underscore.
ParseInt(str) ==
    LET neg == str # <<>> /\ str[1] = "-"
        s1 == IF str # <<>> /\ str[1] \in Signs THEN Tail(str) ELSE str
        pre == IF Len(s1) >= 2 /\ s1[1] = "0" THEN s1[2] ELSE ""
        base == CASE pre = "x" -> 16 [] pre = "o" -> 8 [] pre = "b" -> 2
                  [] Len(s1) >= 2 /\ s1[1] = "0" -> 8
                  [] OTHER -> 10
        s2 == IF pre \in {"x", "o", "b"} THEN Tail(Tail(s1))
              ELSE IF base = 8 THEN Tail(s1) ELSE s1
        ok == /\ s2 # <<>>
              /\ \A i \in 1..Len(s2) :
                     \E d \in 1..base : DigitOrder[d] = s2[i]
    IN  IF ok
        THEN [err |-> FALSE, n |-> IF neg THEN -Value(s2, base) ELSE Value(s2, base)]
        ELSE [err |-> TRUE, n |-> 0]

\* The digits of n > 0 in the base.
RECURSIVE Digits0(_, _)
Digits0(n, base) ==
    IF n = 0 THEN <<>> ELSE Append(Digits0(n \div base, base), DigitOrder[(n % base) + 1])

\* strconv.FormatInt(n, base): a minus sign for n < 0, then the digits.
FormatInt(n, base) ==
    IF n = 0 THEN <<"0">>
    ELSE IF n < 0 THEN <<"-">> \o Digits0(-n, base)
    ELSE Digits0(n, base)

\* str[from:to] of Go, counted from 0.
Cut(str, from, to) == SubSeq(str, from + 1, to)

\* The loop of insertUnderscore: i is the index it has reached.
RECURSIVE underscoreLoop(_, _, _)
underscoreLoop(str, every, i) ==
    IF i < Len(str) /\ i + every < Len(str)
    THEN Cut(str, i, i + every) \o <<"_">> \o underscoreLoop(str, every, i + every)
    ELSE Cut(str, i, Len(str))

\* insertUnderscore
insertUnderscore(str, every) ==
    IF Len(str) <= every
    THEN str
    ELSE LET i == Len(str) % every
         IN  (IF i > 0 THEN Cut(str, 0, i) \o <<"_">> ELSE <<>>)
             \o underscoreLoop(str, every, i)

\* strings.Index and strings.IndexAny: the first index (from 0) of a
\* character of the set, -1 when there is none.
IndexAny(str, set) ==
    IF \E i \in 1..Len(str) : str[i] \in set
    THEN (CHOOSE i \in 1..Len(str) :
              str[i] \in set /\ \A j \in 1..(i - 1) : str[j] \notin set) - 1
    ELSE -1

\* The end of withUnderscore: part is the integer part with its dot, str
\* what follows the dot.
underscoreFraction(part, str, every) ==
    LET x == IndexAny(str, {"e", "E"})
        signed == str[x + 2] \in Signs
        y == IF signed THEN x + 1 ELSE x
    IN  IF x < 0
        THEN part \o insertUnderscore(str, every)
        ELSE part \o insertUnderscore(Cut(str, 0, x), every) \o <<"e">>
             \o (IF signed THEN <<str[y + 1]>> ELSE <<>>)
             \o insertUnderscore(Cut(str, y + 1, Len(str)), every)

\* withUnderscore
withUnderscore(str, every) ==
    IF every = 0 \/ Len(str) < every
    THEN str
    ELSE LET x == IndexAny(str, {"."})
         IN  IF x < 0
             THEN insertUnderscore(str, every)
             ELSE underscoreFraction(insertUnderscore(Cut(str, 0, x), every) \o <<".">>,
                                     Cut(str, x + 1, Len(str)), every)

\* The converter formatInteger(base, underscore, prefix) on the literal str.
formatInteger(base, underscore, prefix, str) ==
    LET p == ParseInt(str)
    IN  IF p.err
        THEN [err |-> TRUE, str |-> <<>>]
        ELSE [err |-> FALSE,
              str |-> prefix \o withUnderscore(FormatInt(p.n, base), underscore)]

\* sort.Slice by Pos().Less on a short slice: an insertion sort.
RECURSIVE sortByPos(_, _)
sortByPos(h, nodes) ==
    IF nodes = <<>>
    THEN <<>>
    ELSE LET n == nodes[Len(nodes)]
             rest == sortByPos(h, SubSeq(nodes, 1, Len(nodes) - 1))
             at == CHOOSE k \in 0..Len(rest) :
                     /\ \A j \in (k + 1)..Len(rest) : PosLess(h[n].pos, h[rest[j]].pos)
                     /\ (k > 0 => ~PosLess(h[n].pos, h[rest[k]].pos))
         IN  SubSeq(rest, 1, at) \o <<n>> \o SubSeq(rest, at + 1, Len(rest))

listOptions(h, t) == sortByPos(h, SelectSeq(h[t].nodes, LAMBDA n : h[n].type = "option"))

listTables(h, t) == sortByPos(h, SelectSeq(h[t].nodes, LAMBDA n : h[n].type = "table"))

write(W, q) == [W EXCEPT !.out = @ \o q]

\* The function returns the error.
failed(W) == [W EXCEPT !.err = TRUE]

\* Formatter.convertValue on the token of a literal: intconv is the identity
\* or, under the rule WithNumber("hex", 0), formatInteger(16, 0, "0x").  The
\* literals of the model are integers and the float 1.5 only under the
\* default floatconv, the identity.
convertValue(R, n) ==
    IF n.tokType = TokInteger /\ R.intconv = "hex"
    THEN formatInteger(16, 0, <<"0", "x">>, Bytes(n.key))
    ELSE [err |-> FALSE, str |-> Bytes(n.key)]

\* Formatter.formatLiteral on a literal that is not a string.
formatLiteral(R, W, n) ==
    LET c == convertValue(R, n)
    IN  IF c.err THEN failed(W) ELSE write(W, c.str)

\* Formatter.beginLine: withNest is off and the trees hold no arrays, so
\* currLevel stays 0 and nothing is written.
beginLine(W) == W

\* Formatter.endLine, withEOL being "\n"
endLine(W) == write(W, <<newline>>)

\* Formatter.writeComment
writeComment(W, str, pre) ==
    IF pre
    THEN endLine(write(beginLine(W), <<"#", " ">> \o Bytes(str)))
    ELSE write(W, <<" ", "#", " ">> \o Bytes(str))

RECURSIVE commentLines(_, _, _)
commentLines(W, lines, pre) ==
    IF lines = <<>>
    THEN W
    ELSE commentLines(writeComment(W, Head(lines), pre), Tail(lines), pre)

\* Formatter.formatComment: the comment is the sequence of its lines, none
\* of them empty in the documents of the model.
formatComment(R, W, lines, pre) ==
    IF ~R.comment \/ lines = <<>> THEN W ELSE commentLines(W, lines, pre)

\* comment.post as a sequence of lines.
postLines(n) == IF n.post = "" THEN <<>> ELSE <<n.post>>

RECURSIVE joinPaths(_)
joinPaths(paths) ==
    IF paths = <<>> THEN <<>>
    ELSE IF Len(paths) = 1 THEN Bytes(paths[1])
    ELSE Bytes(paths[1]) \o <<".">> \o joinPaths(Tail(paths))

\* The end of formatHeader: W is the formatter after the comment above the
\* header, line the header.
headerLine(R, W, t, line) ==
    endLine(formatComment(R, write(beginLine(W), line), postLines(t), FALSE))

\* Formatter.formatHeader; for a kind that has no header it returns its
\* error after the comment, before it writes a header.  formatTable drops
\* what formatHeader returns.
formatHeader(R, W, cur, paths) ==
    LET t == W.h[cur]
        ps == IF t.kind # tableItem THEN Append(paths, t.key) ELSE paths
    IN  IF isRoot(t)
        THEN W
        ELSE IF t.kind \in {tableRegular, tableImplicit}
        THEN headerLine(R, formatComment(R, W, t.pre, TRUE), t,
                        <<"[">> \o joinPaths(ps) \o <<"]">>)
        ELSE IF t.kind = tableItem
        THEN headerLine(R, formatComment(R, W, t.pre, TRUE), t,
                        <<"[", "[">> \o joinPaths(ps) \o <<"]", "]">>)
        ELSE formatComment(R, W, t.pre, TRUE)

RECURSIVE maxLen(_, _)
maxLen(h, options) ==
    IF options = <<>>
    THEN 0
    ELSE LET n == Len(h[Head(options)].key)
             length == maxLen(h, Tail(options))
         IN  IF length < n THEN n ELSE length

longestKey(h, options) == maxLen(h, options)

\* Formatter.writeKey
writeKey(W, str, length) ==
    LET pad == IF length > 0 THEN [j \in 1..(length - Len(str)) |-> " "] ELSE <<>>
    IN  write(W, Bytes(str) \o pad \o <<" ", "=", " ">>)

RECURSIVE formatValue(_, _, _), inlineOptions(_, _, _, _), nextInlineOption(_, _, _, _)

\* The loop of formatInline after the value of its i-th option: an error of
\* formatValue is returned at once.
nextInlineOption(R, W, options, i) ==
    IF W.err THEN W ELSE inlineOptions(R, W, options, i + 1)

\* The loop of formatInline over the options of the inline table; after the
\* loop the closing brace is written.
inlineOptions(R, W, options, i) ==
    IF i > Len(options)
    THEN write(W, <<"}">>)
    ELSE LET o == W.h[options[i]]
             w1 == IF i > 1 THEN write(W, <<",", " ">>) ELSE W
         IN  nextInlineOption(R, formatValue(R, writeKey(w1, o.key, 0), o.value),
                              options, i)

\* Formatter.formatValue, with formatInline
formatValue(R, W, n) ==
    IF n = 0
    THEN W
    ELSE IF W.h[n].type = "literal"
    THEN formatLiteral(R, W, W.h[n])
    ELSE inlineOptions(R, write(W, <<"{">>), listOptions(W.h, n), 1)

RECURSIVE formatTable(_, _, _, _), formatOptions(_, _, _, _, _, _, _),
          formatInlines(_, _, _, _), formatTables(_, _, _, _),
          formatChildren(_, _, _, _), afterOptions(_, _, _, _),
          afterValue(_, _, _, _, _, _, _), afterTable(_, _, _, _),
          afterInline(_, _, _, _)

\* The end of formatTable: W is the formatter after the header and the
\* options of the table cur, whose tables are formatted in turn.
formatChildren(R, W, cur, paths) ==
    LET t == W.h[cur]
        ps == IF ~isRoot(t) /\ isContainer(t.kind) THEN Append(paths, t.key) ELSE paths
    IN  formatTables(R, W, listTables(W.h, cur), ps)

\* formatTable after its call of formatOptions: on an error of formatOptions
\* it returns nil at once.
afterOptions(R, W, cur, paths) ==
    IF W.err
    THEN [W EXCEPT !.err = FALSE]
    ELSE formatChildren(R, endLine(W), cur, paths)

\* Formatter.formatTable
formatTable(R, W, cur, paths) ==
    LET options == listOptions(W.h, cur)
    IN  IF R.empty \/ Len(options) > 0
        THEN afterOptions(R,
                 formatOptions(R, formatHeader(R, W, cur, paths), options,
                               Append(paths, W.h[cur].key),
                               longestKey(W.h, options), 1, <<>>),
                 cur, paths)
        ELSE formatChildren(R, W, cur, paths)

\* The loop of formatTable after one table: its error is returned at once.
afterTable(R, W, tables, paths) ==
    IF W.err THEN W ELSE formatTables(R, W, Tail(tables), paths)

\* The loop of formatTable over the tables of the current table.
formatTables(R, W, tables, paths) ==
    IF tables = <<>>
    THEN W
    ELSE afterTable(R, formatTable(R, W, Head(tables), paths), tables, paths)

\* The loop of formatOptions after the value of the i-th option: an error of
\* formatValue is returned at once.
afterValue(R, W, options, paths, length, i, inlines) ==
    IF W.err
    THEN W
    ELSE formatOptions(R,
                       endLine(formatComment(R, W, postLines(W.h[options[i]]), FALSE)),
                       options, paths, length, i + 1, inlines)

\* Formatter.formatOptions: the loop over the options from the i-th on, then
\* the inline tables it has lifted out of them.
formatOptions(R, W, options, paths, length, i, inlines) ==
    IF i > Len(options)
    THEN IF Len(inlines) > 0
         THEN formatInlines(R, endLine(W), inlines, paths)
         ELSE W
    ELSE LET o == W.h[options[i]]
             v == o.value
         IN  IF v # 0 /\ W.h[v].type = "table" /\ R.inline
             THEN formatOptions(R,
                      [W EXCEPT !.h[v].kind = tableRegular, !.h[v].key = o.key,
                                !.h[v].pos = o.pos, !.h[v].tokType = o.tokType,
                                !.h[v].pre = o.pre, !.h[v].post = o.post],
                      options, paths, length, i + 1, Append(inlines, v))
             ELSE afterValue(R,
                             formatValue(R,
                                 writeKey(beginLine(formatComment(R, W, o.pre, TRUE)),
                                          o.key, length),
                                 v),
                             options, paths, length, i, inlines)

\* The loop of formatOptions after one lifted table: its error is returned
\* at once.
afterInline(R, W, inlines, paths) ==
    IF W.err THEN W ELSE formatInlines(R, W, Tail(inlines), paths)

\* The loop of formatOptions over the lifted tables.
formatInlines(R, W, inlines, paths) ==
    IF inlines = <<>>
    THEN W
    ELSE afterInline(R, formatTable(R, W, Head(inlines), paths), inlines, paths)

\* Formatter.Format: the formatter after it, out the bytes written for the
\* tree h (Flush always succeeds on the writer of the model), err whether
\* Format returns an error.
Format(R, h) == formatTable(R, [out |-> <<>>, h |-> h, err |-> FALSE], Root, <<>>)

----------------------------------------------------------------------------
(* What a tree holds, read without the parser's own lookups.               *)

Range(seq) == {seq[i] : i \in 1..Len(seq)}

Front(p) == SubSeq(p, 1, Len(p) - 1)

LastOf(p) == p[Len(p)]

\* The nodes of the tree under p, p included.
RECURSIVE Reachable(_, _)
Reachable(h, p) ==
    {p} \cup UNION {Reachable(h, c) : c \in Range(h[p].nodes)}
        \cup (IF h[p].value # 0 THEN Reachable(h, h[p].value) ELSE {})

\* The child of table t bound to key k, 0 when k is not bound in t.
Lookup(h, t, k) ==
    IF \E c \in Range(h[t].nodes) : h[c].key = k
    THEN CHOOSE c \in Range(h[t].nodes) : h[c].key = k
    ELSE 0

\* The table a path leads to from table t: a pointer, 0 when a key of the
\* path is not bound, -1 when a key of the path is bound to an option.
RECURSIVE Resolve(_, _, _)
Resolve(h, t, path) ==
    IF path = <<>> \/ t <= 0
    THEN t
    ELSE LET c == Lookup(h, t, Head(path))
         IN  IF c = 0 THEN 0
             ELSE IF h[c].type = "option" THEN -1
             ELSE IF isArray(h[c]) THEN Resolve(h, LastOf(h[c].nodes), Tail(path))
             ELSE Resolve(h, c, Tail(path))

\* The line the step consumes.
NewLine == doc'[Len(doc')]

Stepped == status = "running" /\ doc' # doc

RegularHeaderOf(p) == HeaderLine(TokBegRegularTable, p, TokEndRegularTable)

ArrayHeaderOf(p) == HeaderLine(TokBegArrayTable, p, TokEndArrayTable)

OptionLinesOf(p) == {OptionLine(p, v) : v \in Values}

\* What the last key of path p is bound to, walking from table t: a pointer,
\* or 0 when the path does not lead to a bound key.
Bound(h, t, p) ==
    LET T == Resolve(h, t, Front(p))
    IN  IF T > 0 THEN Lookup(h, T, LastOf(p)) ELSE 0

----------------------------------------------------------------------------
(* C1: in every tree the parser holds or returns, the direct children of a *)
(* table (the Items of an array of tables excepted) have pairwise distinct *)
(* keys; and a key/value line that binds a key already bound in its table  *)
(* (as an option or as a table), or a header that names a key bound as an  *)
(* option, makes Parse return an error at that line.                       *)

DistinctKeys ==
    status # "error" =>
        \A p \in Reachable(heap, Root) :
            (heap[p].type = "table" /\ ~isArray(heap[p])) =>
                \A i, j \in 1..Len(heap[p].nodes) :
                    i # j => heap[heap[p].nodes[i]].key # heap[heap[p].nodes[j]].key

RebindFails ==
    Stepped =>
        \A p \in Paths :
            /\ (NewLine \in OptionLinesOf(p) /\ Bound(heap, curr, p) # 0)
                   => status' = "error"
            /\ (/\ NewLine \in {RegularHeaderOf(p), ArrayHeaderOf(p)}
                /\ Bound(heap, Root, p) # 0
                /\ heap[Bound(heap, Root, p)].type = "option")
                   => status' = "error"

\* C1: the keys of the direct children of a table are pairwise distinct, and
\* a line that binds a bound key again is an error.
C1_UniqueKeys == []DistinctKeys /\ [][RebindFails]_vars

\* `a = 1` twice: the second line is the error.
C1_Witness ==
    /\ status = "error"
    /\ doc = <<OptionLine(<<"a">>, One), OptionLine(<<"a">>, One)>>

----------------------------------------------------------------------------
(* C2: once a key is bound to an inline table, a later header or dotted    *)
(* key whose path ends at or passes through that key makes Parse return an *)
(* error, and the inline table keeps exactly the options written between   *)
(* its braces.                                                             *)

IsInlineOption(h, c) ==
    c > 0 /\ h[c].type = "option" /\ h[c].value # 0 /\ h[h[c].value].kind = tableInline

\* The first key of path p, walking from t, that is bound to an inline table.
RECURSIVE ThroughInline(_, _, _)
ThroughInline(h, t, p) ==
    IF p = <<>> \/ t <= 0
    THEN FALSE
    ELSE LET c == Lookup(h, t, Head(p))
         IN  IF c = 0 THEN FALSE
             ELSE IF h[c].type = "option" THEN IsInlineOption(h, c)
             ELSE IF isArray(h[c]) THEN ThroughInline(h, LastOf(h[c].nodes), Tail(p))
             ELSE ThroughInline(h, c, Tail(p))

\* The keys written between the braces that open just before token j.
RECURSIVE WrittenKeys(_, _)
WrittenKeys(line, j) ==
    IF j > Len(line) \/ line[j].Type = TokEndInline
    THEN {}
    ELSE (IF IsIdent(line[j]) /\ j < Len(line) /\ line[j + 1].Type = TokEqual
          THEN {line[j].Literal} ELSE {})
         \cup WrittenKeys(line, j + 1)

InlineAsWritten ==
    status # "error" =>
        \A p \in Reachable(heap, Root) :
            heap[p].kind = tableInline =>
                /\ {heap[c].key : c \in Range(heap[p].nodes)}
                       = WrittenKeys(doc[heap[p].pos[1]], heap[p].pos[2])
                /\ \A c \in Range(heap[p].nodes) : heap[c].type = "option"
                /\ Len(heap[p].nodes) = Cardinality(Range(heap[p].nodes))
                /\ Len(heap[p].nodes)
                       = Cardinality(WrittenKeys(doc[heap[p].pos[1]], heap[p].pos[2]))

InlineSealed ==
    Stepped =>
        /\ \A p \in Paths :
            /\ (NewLine \in OptionLinesOf(p) /\ ThroughInline(heap, curr, p))
                   => status' = "error"
            /\ (/\ NewLine \in {RegularHeaderOf(p), ArrayHeaderOf(p)}
                /\ ThroughInline(heap, Root, p))
                   => status' = "error"
        /\ status' # "error" =>
               \A p \in Reachable(heap, Root) :
                   heap[p].kind = tableInline => heap'[p] = heap[p]

\* C2: an inline table holds the keys written between its braces and no
\* later header or dotted key adds to it or goes through it.
C2_InlineSealed == []InlineAsWritten /\ [][InlineSealed]_vars

\* `a = { b = 1 }` then `[a.b]`: the header is the error.
C2_Witness ==
    /\ status = "error"
    /\ doc = <<OptionLine(<<"a">>, InlineB), RegularHeaderOf(<<"a", "b">>)>>

----------------------------------------------------------------------------
(* C3: a `[a]` header whose key is bound to an Implicit table is accepted, *)
(* the table becomes Regular and keeps the children it had; a `[a]` header *)
(* whose key is bound to a Regular table is an error.                      *)

PromoteOrReject ==
    Stepped =>
        \A p \in Paths :
            LET x == Bound(heap, Root, p)
            IN  (NewLine = RegularHeaderOf(p) /\ x # 0 /\ heap[x].type = "table") =>
                    /\ isImplicit(heap[x]) =>
                           /\ status' = "running"
                           /\ LET y == Bound(heap', Root, p)
                              IN  /\ y # 0
                                  /\ heap'[y].type = "table"
                                  /\ heap'[y].kind = tableRegular
                                  /\ heap'[y].nodes = heap[x].nodes
                                  /\ \A c \in Range(heap[x].nodes) : heap'[c] = heap[c]
                                  /\ curr' = y
                    /\ heap[x].kind = tableRegular => status' = "error"

\* C3: a `[a]` header over an Implicit table a makes it Regular and keeps its
\* children; over a Regular table a it is an error.
C3_ImplicitPromotion == [][PromoteOrReject]_vars

\* `[a.b]` then `[a]`: a is Regular, defined by line 2, and still holds b.
C3_Witness ==
    /\ status = "running"
    /\ doc = <<RegularHeaderOf(<<"a", "b">>), RegularHeaderOf(<<"a">>)>>
    /\ LET a == Lookup(heap, Root, "a")
       IN  /\ a # 0
           /\ heap[a].kind = tableRegular
           /\ heap[a].pos[1] = Len(doc)
           /\ Lookup(heap, a, "b") # 0

----------------------------------------------------------------------------
(* C4: a `[[a]]` header whose key is bound to an Implicit table makes      *)
(* Parse return an error.                                                  *)

ArrayOverImplicitFails ==
    Stepped =>
        \A p \in Paths :
            LET x == Bound(heap, Root, p)
            IN  (/\ NewLine = ArrayHeaderOf(p)
                 /\ x # 0
                 /\ heap[x].type = "table"
                 /\ isImplicit(heap[x]))
                    => status' = "error"

\* C4: a `[[a]]` header over an Implicit table a is an error.
C4_ImplicitNeverArray == [][ArrayOverImplicitFails]_vars

----------------------------------------------------------------------------
(* C5: an accepted `[[a]]` header leaves the key bound to an array of      *)
(* tables that holds the Items it held before, in their order, followed by *)
(* one new Item, and the new Item takes the next key/value lines; a `[a]`  *)
(* header on a key bound to an array of tables, and a `[[a]]` header on a  *)
(* key bound to a Regular table or to an option, are errors.               *)

ItemAppended ==
    Stepped =>
        \A p \in Paths :
            LET x == Bound(heap, Root, p)
                old == IF x # 0 /\ isArray(heap[x]) THEN heap[x].nodes ELSE <<>>
            IN  /\ (NewLine = ArrayHeaderOf(p) /\ status' # "error") =>
                       LET y == Bound(heap', Root, p)
                       IN  /\ y # 0
                           /\ heap'[y].type = "table"
                           /\ isArray(heap'[y])
                           /\ Len(heap'[y].nodes) = Len(old) + 1
                           /\ SubSeq(heap'[y].nodes, 1, Len(old)) = old
                           /\ heap'[LastOf(heap'[y].nodes)].kind = tableItem
                           /\ heap'[LastOf(heap'[y].nodes)].pos[1] = Len(doc')
                           /\ curr' = LastOf(heap'[y].nodes)
                /\ (NewLine = RegularHeaderOf(p) /\ x # 0 /\ isArray(heap[x]))
                       => status' = "error"
                /\ (/\ NewLine = ArrayHeaderOf(p)
                    /\ x # 0
                    /\ (heap[x].type = "option" \/ heap[x].kind = tableRegular))
                       => status' = "error"

\* C5: an accepted `[[a]]` header appends one Item to the array of tables a,
\* and `[[a]]` over an option or a Regular table a is an error.
C5_ArrayOfTablesAppend == [][ItemAppended]_vars

\* The arrays of tables of the tree the parser holds.
ArraysOfTables ==
    {x \in Reachable(heap, Root) : heap[x].type = "table" /\ isArray(heap[x])}

\* The array of tables x holds Items only, and all that is under an Item
\* was declared before the header of the Item after it: nothing is bound in
\* an Item once a later `[[header]]` has made the next one.
OnlyLastItemGrows(x) ==
    /\ heap[x].nodes # <<>>
    /\ \A c \in Range(heap[x].nodes) : heap[c].type = "table" /\ heap[c].kind = tableItem
    /\ \A j \in 1..(Len(heap[x].nodes) - 1) :
           \A d \in Reachable(heap, heap[x].nodes[j]) :
               PosLess(heap[d].pos, heap[heap[x].nodes[j + 1]].pos)

\* C24: a dotted key or a header path through a key bound to an array of
\* tables leads to the last Item of the array, never to an earlier Item
\* and never to the array itself.
C24_LastItem ==
    status # "error" => \A x \in ArraysOfTables : OnlyLastItemGrows(x)

\* An array of tables holds two Items, and a header or a dotted key read
\* after the header of the second has bound a key under the array.
C24_Witness ==
    /\ status # "error"
    /\ \E x \in ArraysOfTables :
           /\ Len(heap[x].nodes) >= 2
           /\ \E d \in Reachable(heap, LastOf(heap[x].nodes)) :
                  heap[LastOf(heap[x].nodes)].pos[1] < heap[d].pos[1]

\* A dotted key of a key/value line has walked through an array of tables.
C24_DottedKey ==
    /\ status # "error"
    /\ \E x \in ArraysOfTables :
           \E d \in Reachable(heap, LastOf(heap[x].nodes)) :
               /\ heap[d].type = "option"
               /\ heap[LastOf(heap[x].nodes)].pos[1] < heap[d].pos[1]
               /\ curr \notin Reachable(heap, x)

\* The tables of the tree the parser holds, the inline tables included.
TablesOfTree == {t \in Reachable(heap, Root) : heap[t].type = "table"}

\* The children of the table t are sorted by key.
SortedByKey(t) ==
    \A j \in 1..(Len(heap[t].nodes) - 1) :
        StrLeq(heap[heap[t].nodes[j]].key, heap[heap[t].nodes[j + 1]].key)

\* The binary search finds in the table t every key bound in it.
EveryKeyFound(t) ==
    \A c \in Range(heap[t].nodes) :
        /\ searchNodes(heap, heap[c].key, heap[t].nodes) < Len(heap[t].nodes)
        /\ heap[heap[t].nodes[searchNodes(heap, heap[c].key, heap[t].nodes) + 1]].key
               = heap[c].key

\* C27: after every insertion the children of each table are sorted by
\* key, and the binary search of the lookups finds every key that is bound.
C27_SortedChildren ==
    status # "error" => \A t \in TablesOfTree : SortedByKey(t) /\ EveryKeyFound(t)

\* A table holds a child declared after the child that follows it: it was
\* inserted before it, not appended.
C27_Witness ==
    /\ status # "error"
    /\ \E t \in TablesOfTree :
           \E j \in 1..(Len(heap[t].nodes) - 1) :
               /\ heap[heap[t].nodes[j]].key # heap[heap[t].nodes[j + 1]].key
               /\ PosLess(heap[heap[t].nodes[j + 1]].pos, heap[heap[t].nodes[j]].pos)

\* An Implicit table has been merged into the table of a header, which
\* has taken a key of its own after that.
C27_Merged ==
    /\ status # "error"
    /\ \E t \in TablesOfTree :
           /\ t # Root
           /\ Len(heap[t].nodes) >= 2
           /\ \E c \in Range(heap[t].nodes) : PosLess(heap[c].pos, heap[t].pos)

----------------------------------------------------------------------------
(* C6: Parse returns no tree with its error, it returns no tree for a      *)
(* token stream that holds an Illegal token, and it returns a tree only    *)
(* for a document every line of which fits the grammar.                    *)

\* Document := KeyValues (TableHeader KeyValues)* EOF, line by line.
GrammarHeaders == {RegularHeaderOf(p) : p \in Paths} \cup {ArrayHeaderOf(p) : p \in Paths}

GrammarLines ==
    GrammarHeaders \cup OptionLines
    \cup {Commented(One), Commented(ArrayOne), Commented(InlineB)}
    \cup EndLines

HasIllegal(line) == \E j \in 1..Len(line) : line[j].Type = TokIllegal

NoTreeOnError == status = "error" => result = 0

IllegalRejected ==
    status = "ok" => \A n \in 1..Len(doc) : ~HasIllegal(doc[n])

GrammarEnforced ==
    status = "ok" => \A n \in 1..Len(doc) : doc[n] \in GrammarLines

\* C6: Parse returns no tree with an error, rejects every Illegal token and
\* accepts only lines of the grammar.
C6_ErrorOnMismatch == NoTreeOnError /\ IllegalRejected /\ GrammarEnforced

\* The line is a header whose closing bracket is not the one that matches its
\* opening bracket: [a]] or [[a].
Mismatched(line) ==
    \/ /\ line[1].Type = TokBegRegularTable
       /\ \E j \in 2..Len(line) : line[j].Type = TokEndArrayTable
    \/ /\ line[1].Type = TokBegArrayTable
       /\ \E j \in 2..Len(line) : line[j].Type = TokEndRegularTable

\* C13: a header opened with `[` and closed with `]]`, or opened with `[[`
\* and closed with `]`, makes Parse return an error.
C13_BracketsMatch ==
    (\E n \in 1..Len(doc) : Mismatched(doc[n])) => status = "error"

\* The line holds an inline table that is not `{ k = v, k = v }`: a comma
\* right after the opening brace, right before the closing brace or right
\* after another comma, or a newline between the braces.
RECURSIVE BraceDepth(_, _)
BraceDepth(line, j) ==
    IF j = 0
    THEN 0
    ELSE BraceDepth(line, j - 1)
         + (IF line[j].Type = TokBegInline THEN 1 ELSE 0)
         - (IF line[j].Type = TokEndInline THEN 1 ELSE 0)

InlineMisused(line) ==
    \/ \E j \in 1..(Len(line) - 1) :
          \/ line[j].Type = TokBegInline /\ line[j + 1].Type = TokComma
          \/ line[j].Type = TokComma /\ line[j + 1].Type = TokEndInline
          \/ line[j].Type = TokComma /\ line[j + 1].Type = TokComma
    \/ \E j \in 1..Len(line) :
          line[j].Type = TokIllegal /\ BraceDepth(line, j) > 0

\* C14: an inline table with a trailing, leading or doubled comma, or with a
\* newline between its braces, makes Parse return an error.
C14_InlineShape ==
    (\E n \in 1..Len(doc) : InlineMisused(doc[n])) => status = "error"

\* The type of the node the tokens of a value are parsed into.
TypeOf(value) ==
    CASE value[1].Type = TokBegArray -> "array"
      [] value[1].Type = TokBegInline -> "table"
      [] OTHER -> "literal"

\* The options b of the tree whose value has the type and that hold the
\* comment c as the comment above them.
WithComment(type) ==
    {n \in Reachable(heap, Root) :
        /\ heap[n].type = "option"
        /\ heap[n].key = "b"
        /\ heap[heap[n].value].type = type
        /\ heap[n].pre = <<"c">>}

\* The lines of the document that are the option b, with a value of the
\* type, under the comment line c.
CommentedLines(type) ==
    {n \in 1..Len(doc) :
        \E value \in {One, ArrayOne, InlineB} :
            doc[n] = Commented(value) /\ TypeOf(value) = type}

\* C20: the comment line directly above an option is attached to the option
\* by the parser, whether its value is a literal, an array or an inline
\* table: the tree holds as many commented options as the document.
C20_CommentAttached ==
    status # "error" =>
        \A type \in {"literal", "array", "table"} :
            Cardinality(WithComment(type)) >= Cardinality(CommentedLines(type))

\* The comment above an option is attached when the value is a literal or
\* an inline table.
C20_LiteralOrInline ==
    status # "error" =>
        \A type \in {"literal", "table"} :
            Cardinality(WithComment(type)) >= Cardinality(CommentedLines(type))

\* The line `a.b.c = 1` without its newline.
DottedKeys == <<"a", ".", "b", ".", "c", " ", "=", " ", "1">>

\* The documents given to the formatter: up to MaxFmtLines of these lines.
FmtLines ==
    { <<"a", "=", "1", newline>>,
      <<"b", "=", "2", newline>>,
      <<"x", ".", "a", "=", "1", newline>>,
      <<"t", "=", "{", "a", "=", "1", "}", newline>>,
      <<"t", "=", "{", "a", "=", "1", ",", "b", "=", "2", "}", newline>>,
      <<"t", "=", "{", "b", "=", "1", ",", "a", "=", "2", "}", newline>>,
      <<"a", "=", "0", "x", newline>>,
      <<"#", "x", newline, "a", "=", "1", newline>>,
      <<"#", "x", newline, "t", "=", "{", "a", "=", "1", "}", newline>>,
      <<"[", "x", "]", newline>>,
      <<"[", "x", ".", "b", "]", newline>>,
      <<"[", "b", "]", newline>>,
      <<"[", "[", "x", "]", "]", newline>>,
      <<"[", "a", newline>>,
      <<Invalid, "b", "=", "2", newline>>,
      DottedKeys,
      DottedKeys \o <<newline>> }

MaxFmtLines == 2

RECURSIVE FmtTexts(_)
FmtTexts(n) ==
    IF n = 0
    THEN {<<>>}
    ELSE FmtTexts(n - 1) \cup {t \o l : t \in FmtTexts(n - 1), l \in FmtLines}

\* The formatter is run on its own output: NewFormatter and Format, twice.
MaxRounds == 2

\* The rule sets: keep-empty and inline-promote on or off with the other
\* rules at their defaults, int-base hex alone, and comments off alone.
RuleSets ==
    {[DefaultRules EXCEPT !.empty = e, !.inline = i] : e, i \in BOOLEAN}
    \cup {[DefaultRules EXCEPT !.intconv = "hex"], [DefaultRules EXCEPT !.comment = FALSE]}

InitFormat ==
    /\ NumberIdle
    /\ EscapeIdle
    /\ source \in FmtTexts(MaxFmtLines)
    /\ rules \in RuleSets
    /\ fpc = "new"
    /\ docs = <<>>
    /\ outs = <<>>
    /\ rets = <<>>
    /\ held = <<>>
    /\ again = <<>>
    /\ ParserIdle
    /\ ChannelIdle
    /\ ModesIdle

\* The end of NewFormatter: p is what Parse returned.
Parsed(p) ==
    IF p.err
    THEN /\ fpc' = "error"
         /\ UNCHANGED <<docs, held>>
    ELSE /\ fpc' = "parsed"
         /\ docs' = Append(docs, p.h)
         /\ held' = p.h

\* NewFormatter: it reads the file (the document, then what Format wrote)
\* and parses it; a parse error is returned and there is no formatter.
NewFormatter ==
    /\ fpc = "new"
    /\ Len(docs) < MaxRounds
    /\ Parsed(Parse(ScanAll(IF outs = <<>> THEN source ELSE outs[Len(outs)])))
    /\ UNCHANGED <<source, rules, outs, rets, again, notFormat>>

\* Formatter.Format
\* The end of Format: w is the formatter after formatTable.
Returned(w) ==
    /\ outs' = Append(outs, w.out)
    /\ rets' = Append(rets, w.err)
    /\ held' = w.h

FormatDoc ==
    /\ fpc = "parsed"
    /\ Returned(Format(rules, held))
    /\ fpc' = "new"
    /\ UNCHANGED <<source, rules, docs, again, notFormat>>

\* The end of a second Format of the same formatter, the one of the given
\* round: w is the formatter after formatTable.
ReturnedAgain(round, w) ==
    /\ again' = Append(again, [round |-> round, out |-> w.out, err |-> w.err])
    /\ held' = w.h

\* Formatter.Format called once more on the formatter that has formatted.
FormatAgain ==
    /\ fpc = "new"
    /\ outs # <<>>
    /\ \A j \in 1..Len(again) : again[j].round # Len(outs)
    /\ ReturnedAgain(Len(outs), Format(rules, held))
    /\ UNCHANGED <<source, rules, fpc, docs, outs, rets, notFormat>>

NextFormat == NewFormatter \/ FormatDoc \/ FormatAgain

SpecFormat == InitFormat /\ [][NextFormat]_vars

\* The trees h at n and g at m are equal: the same type, key, table kind,
\* value and children, whatever the positions and the comments.
RECURSIVE TreeEq(_, _, _, _)
TreeEq(h, n, g, m) ==
    IF n = 0 \/ m = 0
    THEN n = m
    ELSE /\ h[n].type = g[m].type
         /\ h[n].key = g[m].key
         /\ h[n].kind = g[m].kind
         /\ Len(h[n].nodes) = Len(g[m].nodes)
         /\ \A i \in 1..Len(h[n].nodes) : TreeEq(h, h[n].nodes[i], g, g[m].nodes[i])
         /\ TreeEq(h, h[n].value, g, g[m].value)

\* C7: a document Parse accepts, formatted under the default rules, gives a
\* text that Parse accepts and whose tree equals the document's tree.
C7_RoundTrip ==
    (rules = DefaultRules /\ Len(outs) >= 1) =>
        /\ fpc # "error"
        /\ Len(docs) = 2 => TreeEq(docs[1], Root, docs[2], Root)

\* C8: under any fixed rule set, what Format wrote parses, and formatting it
\* again under the same rules writes the same bytes.
C8_Idempotent ==
    Len(outs) >= 1 =>
        /\ fpc # "error"
        /\ Len(outs) = 2 => outs[1] = outs[2]

\* Some literal of the tree h is one convertValue fails on under the rules R.
EmissionFails(R, h) ==
    \E n \in DOMAIN h : h[n].type = "literal" /\ convertValue(R, h[n]).err

\* C12: whenever the emission of a value of the document fails, Format
\* returns an error; it never returns nil when a value was left unwritten.
C12_ErrorReturned ==
    \A i \in 1..Len(rets) : EmissionFails(rules, docs[i]) => rets[i]

\* The headers the tables under the table t are to be written with, as
\* lines: paths is the path of t.  A table of the tree has a header unless
\* it is Implicit, has no option of its own and keep-empty is off; the
\* items of an array of tables have the header of the array.
RECURSIVE HeadersUnder(_, _, _, _)
HeadersUnder(h, t, paths, empty) ==
    UNION { LET c == h[n]
                path == IF c.kind = tableItem THEN paths ELSE Append(paths, c.key)
                exempt == \/ c.kind = tableArray
                          \/ /\ c.kind = tableImplicit
                             /\ listOptions(h, n) = <<>>
                             /\ ~empty
                line == IF c.kind = tableItem
                        THEN <<"[", "[">> \o joinPaths(path) \o <<"]", "]", newline>>
                        ELSE <<"[">> \o joinPaths(path) \o <<"]", newline>>
            IN  (IF exempt THEN {} ELSE {line}) \cup HeadersUnder(h, n, path, empty)
          : n \in Range(listTables(h, t)) }

\* The line is one of the lines of the text out.
LineIn(out, line) ==
    \E i \in 1..(Len(out) - Len(line) + 1) :
        /\ SubSeq(out, i, i + Len(line) - 1) = line
        /\ (i = 1 \/ out[i - 1] = newline)

\* C18: Format writes the header of every table of the tree but the root
\* and the Implicit tables without options when keep-empty is off; a table
\* opened with a header has it written whether it has options or not.
C18_HeaderWritten ==
    \A i \in 1..Len(outs) :
        ~EmissionFails(rules, docs[i]) =>
            /\ \A line \in HeadersUnder(docs[i], Root, <<>>, rules.empty) :
                   LineIn(outs[i], line)
            /\ ~LineIn(outs[i], <<"[", "]", newline>>)

\* With keep-empty on every header is written.
C18_KeepEmpty ==
    \A i \in 1..Len(outs) :
        (rules.empty /\ ~EmissionFails(rules, docs[i])) =>
            \A line \in HeadersUnder(docs[i], Root, <<>>, TRUE) : LineIn(outs[i], line)

\* The headers the inline tables under the table t are to be written with
\* when they are promoted: path is the path of t, and an inline table bound
\* to k in t has the header [path.k].  With all off, only the inline tables
\* of the tables that are neither the root nor the item of an array count.
RECURSIVE PromotedUnder(_, _, _, _)
PromotedUnder(h, t, path, all) ==
    UNION { LET o == h[n]
                own == all \/ (~isRoot(h[t]) /\ h[t].kind # tableItem)
            IN  IF o.value # 0 /\ h[o.value].type = "table"
                THEN (IF own
                      THEN {<<"[">> \o joinPaths(Append(path, o.key)) \o <<"]", newline>>}
                      ELSE {})
                     \cup PromotedUnder(h, o.value, Append(path, o.key), all)
                ELSE {}
          : n \in Range(listOptions(h, t)) }
    \cup
    UNION { PromotedUnder(h, n,
                          IF h[n].kind = tableItem THEN path ELSE Append(path, h[n].key),
                          all)
          : n \in Range(listTables(h, t)) }

\* C19: with inline-promote on, the inline table bound to k in the table
\* of path P is written under the header [P.k], [k] for a table of the root.
C19_PromotedPath ==
    \A i \in 1..Len(outs) :
        (rules.inline /\ ~EmissionFails(rules, docs[i])) =>
            \A line \in PromotedUnder(docs[i], Root, <<>>, TRUE) : LineIn(outs[i], line)

\* The inline tables of a table that has a header of its own, [P], are
\* written under [P.k].
C19_InTable ==
    \A i \in 1..Len(outs) :
        (rules.inline /\ ~EmissionFails(rules, docs[i])) =>
            \A line \in PromotedUnder(docs[i], Root, <<>>, FALSE) : LineIn(outs[i], line)

\* C20, the formatter's half: with comments kept, the comment the parser
\* attached above an option is written as a line of its own.
C20_CommentWritten ==
    \A i \in 1..Len(outs) :
        (/\ rules.comment
         /\ ~EmissionFails(rules, docs[i])
         /\ \E n \in Reachable(docs[i], Root) :
                docs[i][n].type = "option" /\ docs[i][n].pre = <<"x">>)
        => LineIn(outs[i], <<"#", " ", "x", newline>>)

\* The nodes of the set S from the first declared to the last.  The parser
\* makes the node of an option or of a table when it reads its declaration,
\* so that a node declared before another has the smaller place in the heap.
RECURSIVE ByDeclaration(_, _)
ByDeclaration(h, S) ==
    IF S = {}
    THEN <<>>
    ELSE LET n == CHOOSE n \in S : \A m \in S : n <= m
         IN  <<n>> \o ByDeclaration(h, S \ {n})\* What is declared in the table t, as marks in the order Format is to
\* write them: the options that stay options from the first declared to
\* the last, under inline-promote the inline tables lifted out of the
\* options in the same way, then the child tables, each followed by what
\* is declared in it.  The mark of an option is its key, the mark of a
\* table the key between brackets.
RECURSIVE Declared(_, _, _), DeclaredAll(_, _, _)
Declared(h, t, inline) ==
    LET lifted(n) == inline /\ h[n].value # 0 /\ h[h[n].value].type = "table"
        options == {n \in Range(h[t].nodes) : h[n].type = "option" /\ ~lifted(n)}
        inlines == {n \in Range(h[t].nodes) : h[n].type = "option" /\ lifted(n)}
        tables == {n \in Range(h[t].nodes) : h[n].type = "table"}
        keys == ByDeclaration(h, options)
    IN  [i \in 1..Len(keys) |-> Bytes(h[keys[i]].key)]
        \o DeclaredAll(h, ByDeclaration(h, inlines), inline)
        \o DeclaredAll(h, ByDeclaration(h, tables), inline)

\* The tables are tables of the tree or the options inline tables are
\* lifted out of.
DeclaredAll(h, tables, inline) ==
    IF tables = <<>>
    THEN <<>>
    ELSE LET n == Head(tables)
         IN  <<<<"[">> \o Bytes(h[n].key) \o <<"]">>>>
             \o Declared(h, IF h[n].type = "option" THEN h[n].value ELSE n, inline)
             \o DeclaredAll(h, Tail(tables), inline)

\* The text out cut into its lines.
RECURSIVE LinesOf(_, _)
LinesOf(out, line) ==
    IF out = <<>>
    THEN IF line = <<>> THEN <<>> ELSE <<line>>
    ELSE IF Head(out) = newline
    THEN <<line>> \o LinesOf(Tail(out), <<>>)
    ELSE LinesOf(Tail(out), Append(line, Head(out)))

\* The last segment of the path of the header line, between brackets.
RECURSIVE LastSegment(_, _)
LastSegment(line, seg) ==
    IF line = <<>>
    THEN <<"[">> \o seg \o <<"]">>
    ELSE IF Head(line) \in {"[", "]"}
    THEN LastSegment(Tail(line), seg)
    ELSE IF Head(line) = "."
    THEN LastSegment(Tail(line), <<>>)
    ELSE LastSegment(Tail(line), Append(seg, Head(line)))

\* The key an option line begins with.
RECURSIVE KeyOf(_)
KeyOf(line) ==
    IF line = <<>> \/ Head(line) = " " THEN <<>> ELSE <<Head(line)>> \o KeyOf(Tail(line))

\* The marks of the lines Format wrote, in their order: a header line gives
\* the mark of a table, an option line the mark of an option; the empty
\* lines and the comment lines give none.
RECURSIVE Marks(_)
Marks(lines) ==
    IF lines = <<>>
    THEN <<>>
    ELSE LET l == Head(lines)
         IN  (IF l = <<>> \/ Head(l) = "#"
              THEN <<>>
              ELSE IF Head(l) = "["
              THEN <<LastSegment(l, <<>>)>>
              ELSE <<KeyOf(l)>>)
             \o Marks(Tail(lines))

\* The marks p are among the marks q, in the same order.
RECURSIVE InOrder(_, _)
InOrder(p, q) ==
    IF p = <<>>
    THEN TRUE
    ELSE IF q = <<>>
    THEN FALSE
    ELSE IF Head(p) = Head(q)
    THEN InOrder(Tail(p), Tail(q))
    ELSE InOrder(p, Tail(q))

\* The text out is written in the order of declaration of the tree h.
WrittenInOrder(out, h, inline) == InOrder(Marks(LinesOf(out, <<>>)), Declared(h, Root, inline))

\* C21: in every table Format writes the options in the order of their
\* declaration in the source, then the child tables in the order of
\* theirs, whatever the order of the keys the tree stores them in.
C21_DeclarationOrder ==
    \A i \in 1..Len(outs) :
        ~EmissionFails(rules, docs[i]) => WrittenInOrder(outs[i], docs[i], rules.inline)

\* No two options of one table of the tree h, and no two tables of one
\* table, hold the same position.
DistinctPositions(h) ==
    \A t \in DOMAIN h :
        \A j, k \in 1..Len(h[t].nodes) :
            (j # k /\ h[h[t].nodes[j]].type = h[h[t].nodes[k]].type)
                => h[h[t].nodes[j]].pos # h[h[t].nodes[k]].pos

\* Where the positions the tree holds tell the declarations apart, Format
\* writes them in the order of declaration.
C21_ByPosition ==
    \A i \in 1..Len(outs) :
        (~EmissionFails(rules, docs[i]) /\ DistinctPositions(docs[i]))
            => WrittenInOrder(outs[i], docs[i], rules.inline)

\* A table stores two options, or two tables, in another order than the
\* one of their declaration, and Format has written the document.
C21_Reordered ==
    /\ Len(outs) >= 1
    /\ ~EmissionFails(rules, docs[1])
    /\ DistinctPositions(docs[1])
    /\ \E t \in DOMAIN docs[1] :
           \E j, k \in 1..Len(docs[1][t].nodes) :
               /\ j < k
               /\ docs[1][docs[1][t].nodes[j]].type = docs[1][docs[1][t].nodes[k]].type
               /\ PosLess(docs[1][docs[1][t].nodes[k]].pos, docs[1][docs[1][t].nodes[j]].pos)
               /\ \E m \in 1..Len(Marks(LinesOf(outs[1], <<>>))) :
                      Marks(LinesOf(outs[1], <<>>))[m] = Bytes(docs[1][docs[1][t].nodes[k]].key)\* C23: an input that holds a byte sequence that is not UTF-8 makes the
\* scanner emit an Illegal token and Parse return an error: no tree is
\* returned for the part of the input before the bytes.
C23_InvalidRejected ==
    (Invalid \in Range(source) /\ fpc # "new") =>
        /\ \E i \in 1..Len(ScanAll(source)) : ScanAll(source)[i].Type = TokIllegal
        /\ docs = <<>>

\* What is before the first byte that is not UTF-8 is a document by itself.
PrefixParses ==
    \A i \in 1..Len(source) :
        (source[i] = Invalid /\ Invalid \notin Range(SubSeq(source, 1, i - 1)))
            => ~Parse(ScanAll(SubSeq(source, 1, i - 1))).err

\* Parse returns an error unless the bytes before the first byte that is
\* not UTF-8 are a document by themselves.
C23_ElseRejected ==
    (Invalid \in Range(source) /\ ~PrefixParses) => docs = <<>>

\* The tree h is the one of `a.b.c = 1`: the root holds the table a only,
\* a the table b only, and b the option c only, whose value is 1.
DottedTree(h) ==
    LET a == Lookup(h, Root, "a")
        b == IF a # 0 THEN Lookup(h, a, "b") ELSE 0
        c == IF b # 0 THEN Lookup(h, b, "c") ELSE 0
    IN  /\ c # 0
        /\ h[a].type = "table" /\ Len(h[Root].nodes) = 1
        /\ h[b].type = "table" /\ Len(h[a].nodes) = 1
        /\ h[c].type = "option" /\ Len(h[b].nodes) = 1
        /\ h[c].value # 0
        /\ h[h[c].value].type = "literal"
        /\ h[h[c].value].key = "1"

\* The text holds the header [a.b] and the line `c = 1` right after it.
DottedWritten(out) ==
    LineIn(out, <<"[", "a", ".", "b", "]", newline, "c", " ", "=", " ", "1", newline>>)

\* NewFormatter has returned what Parse made of the document.
FirstParsed == fpc # "new" \/ docs # <<>>

\* C25: Parse accepts `a.b.c = 1` without a final newline; the root holds
\* the table a, a the table b and b the option c = 1, and Format writes
\* under the default rules the header [a.b] and then the line `c = 1`.
C25_DottedKeys ==
    (source = DottedKeys /\ FirstParsed) =>
        /\ docs # <<>>
        /\ DottedTree(docs[1])
        /\ (rules = DefaultRules /\ outs # <<>>) => DottedWritten(outs[1])

\* With its newline the line is parsed and written as the claim says.
C25_WithNewline ==
    (source = DottedKeys \o <<newline>> /\ FirstParsed) =>
        /\ docs # <<>>
        /\ DottedTree(docs[1])
        /\ (rules = DefaultRules /\ outs # <<>>) => DottedWritten(outs[1])

\* The line with its newline has been parsed and written.
C25_Written ==
    /\ source = DottedKeys \o <<newline>>
    /\ rules = DefaultRules
    /\ outs # <<>>

\* The tree g has the tables, the kinds, the keys and the values of the
\* tree h: the comments and the positions are left out.
AsParsed(h, g) ==
    /\ DOMAIN g = DOMAIN h
    /\ \A n \in DOMAIN h :
        /\ g[n].type = h[n].type
        /\ g[n].kind = h[n].kind
        /\ g[n].key = h[n].key
        /\ g[n].value = h[n].value
        /\ g[n].nodes = h[n].nodes

\* The formatter that has formatted holds the tree of the last round.
Formatted == fpc = "new" /\ outs # <<>>

\* C28: Format does not change the tree: after Format has returned, every
\* table kind, table key and option value of the formatter's tree is as
\* the parser left it, and a second Format of the same formatter writes
\* the bytes of the first, with every rule, the promotion of inline tables
\* too.
C28_TreeKept ==
    /\ Formatted => AsParsed(docs[Len(docs)], held)
    /\ \A j \in 1..Len(again) :
        /\ again[j].out = outs[again[j].round]
        /\ again[j].err = rets[again[j].round]

\* The second Format alone: it writes what the first wrote and returns
\* what the first returned.
C28_SameBytes ==
    \A j \in 1..Len(again) :
        /\ again[j].out = outs[again[j].round]
        /\ again[j].err = rets[again[j].round]

\* Without the promotion of inline tables the tree is as the parser left
\* it, to the last field.
C28_DefaultKept ==
    (Formatted /\ ~rules.inline) => held = docs[Len(docs)]

\* A document with an inline table has been formatted twice with the
\* promotion on.
C28_PromotedTwice ==
    /\ rules.inline
    /\ again # <<>>
    /\ \E n \in DOMAIN docs[1] :
        docs[1][n].type = "table" /\ docs[1][n].kind = tableInline

----------------------------------------------------------------------------
(* The number converters as a state machine: a converter built by          *)
(* WithNumber or WithFloat is called on one number.  strconv.ParseFloat    *)
(* and strconv.FormatFloat are not modelled: a float is given as the       *)
(* string FormatFloat returns for it.                                      *)

\* Integer literals the scanner emits and the parser accepts.
IntLiterals ==
    { <<"0">>, <<"1">>, <<"5">>, <<"1", "0">>, <<"1", "2">>, <<"1", "0", "0">>,
      <<"2", "5", "5">>, <<"1", "0", "0", "0">>, <<"1", "2", "0", "0", "0">>,
      <<"-", "1">>, <<"-", "5">>, <<"-", "1", "0">>, <<"-", "1", "0", "0">>,
      <<"-", "2", "5", "5">>, <<"-", "1", "0", "0", "0">>,
      <<"0", "x", "f", "f">>, <<"0", "o", "1", "2">>, <<"0", "b", "1", "0", "1">> }

\* What strconv.FormatFloat returns for some floats, under 'f', 'e' or 'g'.
FloatTexts ==
    { <<"1", ".", "5">>, <<"1", "0", "0", "0", ".", "5">>,
      <<"-", "1", "0", "0", ".", "2", "5">>, <<"0", ".", "0", "0", "0", "1">>,
      <<"1", "0", "0", "0", "0", "0">>, <<"1", "e", "+", "2", "1">>,
      <<"1", ".", "5", "e", "-", "0", "7">>, <<"1", ".", "2", "5", "e", "+", "1", "0", "0">> }

\* The largest underscore-every of the rules.
MaxEvery == 3

\* WithNumber: the bases and their prefixes.
Bases ==
    { [base |-> 16, prefix |-> <<"0", "x">>], [base |-> 8, prefix |-> <<"0", "o">>],
      [base |-> 2, prefix |-> <<"0", "b">>], [base |-> 10, prefix |-> <<>>] }

InitNumber ==
    /\ EscapeIdle
    /\ ParserIdle
    /\ ChannelIdle
    /\ ModesIdle
    /\ FormatIdle
    /\ \/ /\ number \in [kind : {"int"}, str : IntLiterals]
          /\ numrule \in {[base |-> b.base, prefix |-> b.prefix, every |-> e] :
                             b \in Bases, e \in 0..MaxEvery}
       \/ /\ number \in [kind : {"float"}, str : FloatTexts]
          /\ numrule \in [base : {10}, prefix : {<<>>}, every : 0..MaxEvery]
    /\ shown = <<>>

\* The converter of the rule R on the number n.
Convert(R, n) ==
    IF n.kind = "int"
    THEN formatInteger(R.base, R.every, R.prefix, n.str)
    ELSE [err |-> FALSE, str |-> withUnderscore(n.str, R.every)]

\* Formatter.convertValue calls intconv on an Integer token.
ConvertInteger ==
    /\ shown = <<>>
    /\ number.kind = "int"
    /\ shown' = <<Convert(numrule, number)>>
    /\ UNCHANGED <<number, numrule, notNumber>>

\* Formatter.convertValue calls floatconv on a Float token.
ConvertFloat ==
    /\ shown = <<>>
    /\ number.kind = "float"
    /\ shown' = <<Convert(numrule, number)>>
    /\ UNCHANGED <<number, numrule, notNumber>>

NextNumber == ConvertInteger \/ ConvertFloat

SpecNumber == InitNumber /\ [][NextNumber]_vars

\* str is an integer literal with the prefix: an optional minus sign, the
\* prefix, then one digit of the base or more.
PrefixedInteger(str, prefix, base) ==
    LET s1 == IF str # <<>> /\ str[1] = "-" THEN Tail(str) ELSE str
        n == Len(prefix)
    IN  /\ Len(s1) > n
        /\ SubSeq(s1, 1, n) = prefix
        /\ \A i \in (n + 1)..Len(s1) : \E d \in 1..base : DigitOrder[d] = s1[i]

\* C16: under int-base hex, oct or bin every accepted integer is written
\* as an integer literal that carries the prefix and has the same value.
C16_BasePrefix ==
    (shown # <<>> /\ number.kind = "int" /\ numrule.base # 10 /\ numrule.every = 0) =>
        /\ ~shown[1].err
        /\ PrefixedInteger(shown[1].str, numrule.prefix, numrule.base)
        /\ ParseInt(shown[1].str) = ParseInt(number.str)

\* The integers that are not negative are written as C16 says: 255 under
\* int-base hex is 0xff.
C16_NotNegative ==
    (shown # <<>> /\ number.kind = "int" /\ numrule.base # 10 /\ numrule.every = 0
       /\ number.str[1] # "-") =>
        /\ ~shown[1].err
        /\ PrefixedInteger(shown[1].str, numrule.prefix, numrule.base)
        /\ ParseInt(shown[1].str) = ParseInt(number.str)
        /\ (number.str = <<"2", "5", "5">> /\ numrule.base = 16)
              => shown[1].str = <<"0", "x", "f", "f">>

\* The digits of a number written under the rule R.
DigitsOf(R, n) ==
    IF n.kind = "int" THEN {DigitOrder[d] : d \in 1..R.base} ELSE Digits10

\* str[1..i] with `_` between two digits of the same run wherever the digits
\* that follow in the run are a multiple of every; run counts the digits
\* that follow str[i] in its run.
RECURSIVE Grouped(_, _, _, _, _)
Grouped(str, every, digits, i, run) ==
    IF i = 0
    THEN <<>>
    ELSE IF str[i] \in digits
    THEN Grouped(str, every, digits, i - 1, run + 1) \o <<str[i]>>
         \o (IF run > 0 /\ run % every = 0 THEN <<"_">> ELSE <<>>)
    ELSE Grouped(str, every, digits, i - 1, 0) \o <<str[i]>>

\* C17: with underscore-every n > 0 the number is written as with n = 0
\* but for a `_` between two digits at every n-th digit, counted from the
\* right in the integer part, in the fraction and in the exponent.
C17_Underscores ==
    (shown # <<>> /\ numrule.every > 0) =>
        LET plain == Convert([numrule EXCEPT !.every = 0], number).str
        IN  shown[1].str =
                Grouped(plain, numrule.every, DigitsOf(numrule, number), Len(plain), 0)

----------------------------------------------------------------------------
(* The escape sequences of a basic string (scan.go): scanString calls      *)
(* scanEscape at a backslash, and scanEscape calls scanUnicodeEscape at    *)
(* `u` and `U`.  A rune is its code point; utf8.RuneError is U+FFFD.       *)

backslash == "\\"

dquote == "\""

UpperHexa == <<"A", "B", "C", "D", "E", "F">>

LowerHexa == <<"a", "b", "c", "d", "e", "f">>

IndexOf(q, c) == CHOOSE i \in 1..Len(q) : q[i] = c

\* The x of scanUnicodeEscape for the character: s.char - '0', s.char - 'a'
\* or s.char - 'A'; -1 stands for the default case of the switch.
escapeDigit(c) ==
    IF c \in Digits10
    THEN DigitValue(c)
    ELSE IF c \in Range(LowerHexa)
    THEN IndexOf(LowerHexa, c) - 1
    ELSE IF c \in Range(UpperHexa)
    THEN IndexOf(UpperHexa, c) - 1
    ELSE -1

\* x << offset on an int32, for 0 <= x < 16 and 0 <= offset <= 28: the bit
\* 31 is the sign.
shiftLeft(x, offset) ==
    IF offset = 28 /\ x >= 8 THEN (x - 16) * 2^28 ELSE x * 2^offset

\* What scanEscape returns: the scanner, the rune, and whether the
\* goroutine has panicked instead of returning.
Escaped(S, char, aborted) == [s |-> S, char |-> char, aborted |-> aborted]

RECURSIVE unicodeLoop(_, _, _, _, _, _), unicodeDigit(_, _, _, _, _, _)

\* The body of the loop of scanUnicodeEscape after its readRune.  The
\* nibbles do not overlap, so that |= adds; a shift by a negative count is
\* a run-time panic.
unicodeDigit(I, S, char, offset, step, i) ==
    IF escapeDigit(S.char) < 0
    THEN Escaped(S, 65533, FALSE)
    ELSE IF offset < 0
    THEN Escaped(S, char, TRUE)
    ELSE unicodeLoop(I, S, char + shiftLeft(escapeDigit(S.char), offset),
                     offset - step, step, i + 1)

\* The loop of scanUnicodeEscape
unicodeLoop(I, S, char, offset, step, i) ==
    IF i < step
    THEN unicodeDigit(I, readRune(I, S), char, offset, step, i)
    ELSE Escaped(readRune(I, S), char, FALSE)

scanUnicodeEscape(I, S) ==
    IF S.char = "u"
    THEN unicodeLoop(I, S, 0, 12, 4, 0)
    ELSE unicodeLoop(I, S, 0, 28, 8, 0)

\* The code points of the map escapes, for the keys of the model.
escapes == [n |-> 10, t |-> 9]

\* scanEscape after its readRune, outside a multi-line string.
escapeKind(I, S) ==
    IF S.char \in {"u", "U"}
    THEN scanUnicodeEscape(I, S)
    ELSE IF S.char \in DOMAIN escapes
    THEN Escaped(readRune(I, S), escapes[S.char], FALSE)
    ELSE Escaped(S, 65533, FALSE)

scanEscape(I, S) == escapeKind(I, readRune(I, S))

\* The switch of scanString on what scanEscape returned: the token is
\* Illegal for utf8.RuneError, nothing is written for 0, the rune is
\* written otherwise.
escapeCase(e) ==
    [aborted |-> e.aborted,
     illegal |-> ~e.aborted /\ e.char = 65533,
     written |-> IF e.aborted \/ e.char \in {0, 65533} THEN <<>> ELSE <<e.char>>,
     char |-> e.s.char]

\* scanString on an input that opens a basic string at a backslash, up to
\* the end of its first round.
stringEscape(I) == escapeCase(scanEscape(I, readRune(I, NewScanner(I))))

\* The hexadecimal digits, in the order of their values.
AllHexa == DigitOrder \o UpperHexa

\* The digits of the escapes of the model: every hexadecimal digit is at
\* the two last places, the places before them hold 0, 1 or f.
ShortDigits ==
    {<<a, b, c, d>> : a \in {"0", "1"}, b \in {"0", "f"},
                      c \in Range(AllHexa), d \in Range(AllHexa)}

\* The basic strings: one escape \uXXXX or \UXXXXXXXX between the quotes.
EscapeTexts ==
    {<<dquote, backslash, "u">> \o q \o <<dquote, newline>> : q \in ShortDigits}
    \cup {<<dquote, backslash, "U", "0", "0", "0", "0">> \o q \o <<dquote, newline>> :
             q \in ShortDigits}

InitEscape ==
    /\ ParserIdle
    /\ ChannelIdle
    /\ ModesIdle
    /\ FormatIdle
    /\ NumberIdle
    /\ escape \in EscapeTexts
    /\ escaped = <<>>

\* scanString reaches the backslash and calls scanEscape.
ScanEscape ==
    /\ escaped = <<>>
    /\ escaped' = <<stringEscape(escape)>>
    /\ UNCHANGED <<escape, notEscape>>

NextEscape == ScanEscape

SpecEscape == InitEscape /\ [][NextEscape]_vars

\* The value of a hexadecimal digit, a to f and A to F being 10 to 15.
HexaValue(c) ==
    IF c \in Range(UpperHexa) THEN 9 + IndexOf(UpperHexa, c) ELSE DigitValue(c)

\* The number the hexadecimal digits q write, most significant first.
RECURSIVE HexaNumber(_)
HexaNumber(q) ==
    IF q = <<>>
    THEN 0
    ELSE 16 * HexaNumber(SubSeq(q, 1, Len(q) - 1)) + HexaValue(q[Len(q)])

\* The digits of the escape of the basic string.
EscapeDigits(I) == SubSeq(I, 4, Len(I) - 2)

\* C22: \uXXXX and \UXXXXXXXX scan to the one character whose code point
\* is the hexadecimal number XXXX, XXXXXXXX, for the digits 0-9, a-f and
\* A-F alike, and the scanner is not aborted.
C22_UnicodeEscape ==
    escaped # <<>> =>
        /\ ~escaped[1].aborted
        /\ ~escaped[1].illegal
        /\ escaped[1].written = <<HexaNumber(EscapeDigits(escape))>>
        /\ escaped[1].char = dquote

\* The four digits of \uXXXX are all decimal digits and not all 0.
DecimalEscape ==
    /\ escape[3] = "u"
    /\ Range(EscapeDigits(escape)) \subseteq Digits10
    /\ HexaNumber(EscapeDigits(escape)) # 0

\* With decimal digits only, \uXXXX scans to the character of code point XXXX.
C22_DecimalDigits ==
    (escaped # <<>> /\ DecimalEscape) =>
        /\ ~escaped[1].aborted
        /\ escaped[1].written = <<HexaNumber(EscapeDigits(escape))>>
        /\ escaped[1].char = dquote

\* The scanner is aborted on every \U followed by eight hexadecimal digits.
C22_LongAborts ==
    (escaped # <<>> /\ escape[3] = "U") => escaped[1].aborted

(***************************************************************************)
(* Parse over the scanner's queue (Parse and Parser.next of parser.go with *)
(* NewScanner, scan, emit and Scan of scan.go): the caller of Scan is the  *)
(* parser, which calls it twice before Parser.Parse and once for every     *)
(* token it passes, and no more once Parse has returned.                   *)
(***************************************************************************)

\* The number of calls of Scan that Parse makes on the input I: the parser
\* holds curr and peek, so it has called Scan once more than the place of
\* curr.
ScansOfParse(I) == ParserEnd(ScanAll(I)).i + 1

\* Parse: NewScanner has started the goroutine of scan and the parser is
\* about to call Scan.
InitParseScan ==
    /\ ParserIdle
    /\ ModesIdle
    /\ FormatIdle
    /\ NumberIdle
    /\ EscapeIdle
    /\ input \in Texts(MaxScanLines)
    /\ scn = NewScanner(input)
    /\ scan = "scanDefault"
    /\ pending = <<>>
    /\ ppc = "loop"
    /\ cpc = "idle"
    /\ received = <<>>
    /\ scans = 0
    /\ calls = ScansOfParse(input)

\* Parser.next: the parser calls Scan.
ParserNext ==
    /\ cpc = "idle"
    /\ scans < calls
    /\ cpc' = "recv"
    /\ scans' = scans + 1
    /\ UNCHANGED <<input, scn, scan, pending, ppc, received, notChannel>>

\* Parse returns, with the tree or with the error.
ParseReturn ==
    /\ cpc = "idle"
    /\ scans = calls
    /\ cpc' = "returned"
    /\ UNCHANGED <<input, scn, scan, pending, ppc, received, scans, notChannel>>

NextParseScan ==
    ProducerRound \/ ProducerClose \/ ParserNext \/ Handoff \/ ScanClosed \/ ParseReturn

SpecParseScan == InitParseScan /\ [][NextParseScan]_vars

\* The goroutine of Scanner.scan can run a round of its loop.
ProducerRuns == ppc = "loop" /\ ~isDone(input, scn)

\* The parser can run: it calls Scan once more or Parse returns.
ParserRuns == cpc = "idle"

\* The scheduler of Go runs a goroutine that can run: a step that stays
\* possible is taken in the end, by the goroutine of scan as by the parser.
\* The weak fairness of ProducerRound, ParserNext and ParseReturn is
\* written out with their guards.
FairParseScan ==
    /\ SpecParseScan
    /\ WF_vars(ProducerClose)
    /\ WF_vars(Handoff)
    /\ WF_vars(ScanClosed)
    /\ ([]<>(~ProducerRuns) \/ []<><<ProducerRound>>_vars)
    /\ ([]<>(~ParserRuns) \/ []<><<ParserNext \/ ParseReturn>>_vars)

\* C29: whenever Parse returns, with a tree or with an error, the goroutine
\* of Scanner.scan has finished or finishes without any further call of
\* Scan: it is never left blocked on the send of a token nobody receives.
C29_ProducerFinishes == (cpc = "returned") ~> (ppc = "closed")

\* The same as a state: Parse has returned and the goroutine waits in emit
\* on the send, with no receiver left.
C29_NeverBlocked == ~(cpc = "returned" /\ ppc = "emit")

\* When Parse returns a tree the goroutine has finished already: the
\* parser has seen the queue closed.
C29_TreeThenClosed ==
    (cpc = "returned" /\ ~ParserEnd(ScanAll(input)).err) => ppc = "closed"

\* Parse has returned an error with tokens left to send.
C29_ErrorReturned ==
    /\ cpc = "returned"
    /\ ParserEnd(ScanAll(input)).err
    /\ ppc = "emit"

(***************************************************************************)
(* The tokens of the scanner with modes when it keeps the comments and     *)
(* when it drops them (Scanner.Scan and scanComment of part_018).          *)
(***************************************************************************)

\* The steps of Scan on the buffer B that the runs below follow at most.
Fuel(B) == 2 * Len(B) + MaxSpin + 2

\* The tokens Scan returns, call after call, with KeepComment off and
\* KeepMultiline as in k, from the scanner S at the place pc with the
\* locals c of scanComment, up to the end of the buffer: the steps are
\* those of ScanPass, CommentStep and CommentEnd.
RECURSIVE WithoutComments(_, _, _, _, _, _)
WithoutComments(B, k, S, pc, c, fuel) ==
    IF fuel = 0 \/ pc = "panic"
    THEN <<>>
    ELSE IF pc = "scan"
    THEN LET r == ScanBody(B, S, [k EXCEPT !.comment = FALSE])
         IN  IF r.tok # <<>> /\ r.tok[1].Type = "EOF"
             THEN <<>>
             ELSE r.tok \o WithoutComments(B, k, r.s,
                                           IF r.pc = "idle" THEN "scan" ELSE r.pc,
                                           r.comm, fuel - 1)
    ELSE IF ~isNewline(S.char)
    THEN IF c.offset > -MaxSpin
         THEN WithoutComments(B, k, readRune18(B, S), pc,
                              [c EXCEPT !.offset = @ + RuneLen(readRune18(B, S).char)],
                              fuel - 1)
         ELSE <<>>
    ELSE IF ~SliceOK(B, c.pos, c.pos + c.offset)
    THEN <<>>
    ELSE WithoutComments(B, k, readRune18(B, unreadRune18(B, S)), "scan", <<>>, fuel - 1)

\* A token that is neither a comment nor a newline (nor the end).
Meaningful(t) == t.Type \notin {"Comment", "Newline", "EOF"}

\* The kinds and the literals of the meaningful tokens of q, in order.
KindsAndLiterals(q) ==
    LET m == SelectSeq(q, Meaningful)
    IN  [i \in 1..Len(m) |-> <<m[i].Type, m[i].Literal>>]

IsPrefix(p, q) == Len(p) <= Len(q) /\ SubSeq(q, 1, Len(p)) = p

\* The meaningful tokens of the buffer when the comments are dropped.
Dropped ==
    KindsAndLiterals(WithoutComments(buffer, keep, NewScanner18(buffer), "scan", <<>>,
                                     Fuel(buffer)))

\* C30: keeping the comments changes the token stream only by adding the
\* Comment tokens: the tokens other than Comment and Newline that Scan
\* returns with KeepComment on are those it returns with KeepComment off,
\* with the same kinds and literals, in the same order (as far as the
\* caller has called Scan, and all of them once Scan has returned EOF).
C30_OnlyCommentsAdded ==
    keep.comment =>
        /\ IsPrefix(KindsAndLiterals(tokens18), Dropped)
        /\ (\E i \in 1..Len(tokens18) : tokens18[i].Type = "EOF")
               => KindsAndLiterals(tokens18) = Dropped

\* The run that drops the comments is the run of the model: with
\* KeepComment off the tokens of the state are those of WithoutComments.
C30_SameRun ==
    ~keep.comment => IsPrefix(KindsAndLiterals(tokens18), Dropped)

\* Up to the first comment the two streams are the same.
C30_BeforeComment ==
    (keep.comment /\ \A i \in 1..Len(tokens18) : tokens18[i].Type # "Comment")
        => IsPrefix(KindsAndLiterals(tokens18), Dropped)

\* A comment has been kept and a token scanned after it.
C30_AfterComment ==
    /\ keep.comment
    /\ \E i \in 1..Len(tokens18) :
        /\ tokens18[i].Type = "Comment"
        /\ i < Len(tokens18)
        /\ Meaningful(tokens18[Len(tokens18)])

====
